---- MODULE Spec2Model ----
(***************************************************************************)
(* Qur'an self-recitation trainer: the verse tokenizer, the memorization   *)
(* session (MemorizationView), the scoring functions of the summary modal  *)
(* and the line breaker of the summary export (AnalysisView).              *)
(*                                                                         *)
(* A text is a sequence of one-character strings.  "a" stands for any      *)
(* Arabic letter or ordinary diacritic, "m" for a character of the mark    *)
(* class U+0610-061A, U+06D6-06DC, U+06DE-06E8, U+FEF5-FEFC, " " for       *)
(* the space the code splits on and "\t" for any other white space (which  *)
(* String.prototype.trim removes but split(' ') does not split on).        *)
(* Indices of verses and words are 0-based as in the code; a TLA+ sequence *)
(* s is read at s[i + 1].                                                  *)
(***************************************************************************)
EXTENDS Integers, Sequences, FiniteSets, TLC

\* ------------------------------------------------------------------ bounds
MaxTextLen == 5          \* longest verse text the tokenizer and the export are run on
MaxTotalWords == 30      \* largest totalWords the score is computed for
MaxMistakeCount == 3     \* largest forgotCount / tajwidCount the score is computed for
MaxAyahs == 3            \* longest verse list of a session, preambles included
MaxMistakes == 2         \* longest Mistake Log of a session
MaxSessionWords == 4     \* largest totalWordsInSession a session counts up to
MaxCallWords == 8        \* largest totalWordsInSession handed to a called function
MaxCallMistakes == 4     \* longest Mistake Log handed to a called function
MaxCalls == 2            \* calls made in a row on one drawn state
MaxReviewAyahs == 2      \* longest verse list the review section is drawn for
MaxReviewMistakes == 2   \* longest stats.mistakes the review section is drawn for
MaxSnapshotWords == 10001   \* largest totalWordsInSession a snapshot is taken of
MaxSnapshotMistakes == 2    \* longest Mistake Log a snapshot is taken of
MaxMarkedAyahs == 2         \* longest verse list of a session with a longer Mistake Log
MaxMarkedMistakes == 3      \* longest Mistake Log of such a session

VARIABLES
    \* props of MemorizationView
    ayahs, isJuzMode, startAyah,
    \* state of MemorizationView
    currentAyahIndex, currentWordIndex, mistakes, totalWordsInSession,
    furthestAyahIndex, furthestWordIndex, sessionStartIndex,
    showSummary, sessionStats, sessionStarted,
    \* history of the session: the last handler and what it did, every
    \* furthest position since the start, the highest position the cursor or
    \* the furthest mark has had since the start, and how many steps of the
    \* end-to-end scenario the run has followed so far (-1: it left it);
    \* forwardOnly: from here on the user presses nothing but the next-word
    \* button and, on a preamble screen, the start button
    lastOp, furthestSeen, peak, scenario, forwardOnly,
    \* tokenizer run (TokSpec): a verse text and the stats.mistakes of verse 0,
    \* the display items of the session, and what the other consumers of the
    \* text make of it: the spans of the Analysis view, the items of the
    \* export, the word count of handlePreviousWord; tokRan names the
    \* consumers that have run
    tokText, tokItems, tokDone,
    tokMistakes, tokSpans, tokExportItems, tokWordCount, tokRan,
    \* score run (ScoreSpec)
    scStats, scScore, scDone,
    \* rank run (RankSpec)
    rkAccuracy, rkRank, rkPrevRank,
    \* export layout run (ExportSpec)
    \* with the lines the height pre-pass counts for the verse, the height
    \* it reserves for it and the height the drawing pass uses for it
    exText, exMistakes, exFont, exLines, exDone,
    exPreLines, exReserved, exDrawn,
    \* review section run (ReviewSpec): the ayahs and stats.mistakes props of
    \* AnalysisView, the font, mistakesByAyah, the canvas calls made
    rvAyahs, rvMistakes, rvFont, rvGroups, rvOps, rvDone

tokUseVars == <<tokMistakes, tokSpans, tokExportItems, tokWordCount, tokRan>>
tokVars == <<tokText, tokItems, tokDone, tokUseVars>>
scVars == <<scStats, scScore, scDone>>
rkVars == <<rkAccuracy, rkRank, rkPrevRank>>
rvVars == <<rvAyahs, rvMistakes, rvFont, rvGroups, rvOps, rvDone>>
exHeightVars == <<exPreLines, exReserved, exDrawn>>
exVars == <<exText, exMistakes, exFont, exLines, exDone, exHeightVars, rvVars>>
propVars == <<ayahs, isJuzMode, startAyah>>
stateVars == <<currentAyahIndex, currentWordIndex, mistakes, totalWordsInSession,
               furthestAyahIndex, furthestWordIndex, sessionStartIndex,
               showSummary, sessionStats, sessionStarted>>
histVars == <<lastOp, furthestSeen, peak, scenario, forwardOnly>>
sessVars == <<propVars, stateVars, histVars>>
pureVars == <<tokVars, scVars, rkVars, exVars>>
vars == <<sessVars, pureVars>>

\* sessionStats is null or a stats object: the empty sequence, or the sequence
\* of the one object.
NullStats == <<>>

\* --------------------------------------------------------------- characters
Letter == "a"
Mark == "m"
Space == " "
OtherSpace == "\t"
Chars == {Letter, Mark, Space, OtherSpace}

IsMark(c) == c = Mark
IsWhite(c) == c \in {Space, OtherSpace}

\* All texts of at most n characters.
TextsUpTo(n) == UNION {[1..k -> Chars] : k \in 0..n}

\* --------------------------------------------------------------- tokenizer
\* text.replace(/[marks]/g, '')
cleanArabicText(text) == SelectSeq(text, LAMBDA c : ~IsMark(c))

\* text.replace(marksRegex, ' $1 ')
RECURSIVE ReplaceMarks(_)
ReplaceMarks(text) ==
    IF text = <<>> THEN <<>>
    ELSE (IF IsMark(Head(text)) THEN <<Space, Head(text), Space>> ELSE <<Head(text)>>)
         \o ReplaceMarks(Tail(text))

\* String.prototype.split(' '): the fragments between single spaces, empty ones kept.
RECURSIVE SplitFrom(_, _)
SplitFrom(rest, cur) ==
    IF rest = <<>> THEN <<cur>>
    ELSE IF Head(rest) = Space THEN <<cur>> \o SplitFrom(Tail(rest), <<>>)
    ELSE SplitFrom(Tail(rest), Append(cur, Head(rest)))

SplitOnSpace(text) == SplitFrom(text, <<>>)

\* .filter(Boolean): the empty string is falsy
FilterBoolean(frags) == SelectSeq(frags, LAMBDA f : f # <<>>)

\* String.prototype.trim
RECURSIVE TrimLeft(_)
TrimLeft(s) == IF s # <<>> /\ IsWhite(Head(s)) THEN TrimLeft(Tail(s)) ELSE s

RECURSIVE TrimRight(_)
TrimRight(s) ==
    IF s # <<>> /\ IsWhite(s[Len(s)]) THEN TrimRight(SubSeq(s, 1, Len(s) - 1)) ELSE s

Trim(s) == TrimRight(TrimLeft(s))

\* textWithSpaces.split(' ').filter(Boolean)
originalWords(text) == FilterBoolean(SplitOnSpace(ReplaceMarks(text)))

\* cleanArabicText(word).trim().length === 0
IsWaqf(word) == Len(Trim(cleanArabicText(word))) = 0

\* A plausible slip: the pause mark takes the next index like a word does.
RECURSIVE BuildDisplayWaqfCounts(_, _)
BuildDisplayWaqfCounts(words, currentLogicIndex) ==
    IF words = <<>> THEN <<>>
    ELSE LET word == Head(words) IN
         <<[type |-> IF IsWaqf(word) THEN "waqf" ELSE "word",
            text |-> word, logicIndex |-> currentLogicIndex + 1]>>
         \o BuildDisplayWaqfCounts(Tail(words), currentLogicIndex + 1)

\* A plausible slip: the item carries the cleaned fragment, so a mark is lost.
RECURSIVE BuildDisplayCleaned(_, _)
BuildDisplayCleaned(words, currentLogicIndex) ==
    IF words = <<>> THEN <<>>
    ELSE LET word == Head(words) IN
         IF IsWaqf(word)
         THEN <<[type |-> "waqf", text |-> cleanArabicText(word),
                 logicIndex |-> currentLogicIndex]>>
              \o BuildDisplayCleaned(Tail(words), currentLogicIndex)
         ELSE <<[type |-> "word", text |-> cleanArabicText(word),
                 logicIndex |-> currentLogicIndex + 1]>>
              \o BuildDisplayCleaned(Tail(words), currentLogicIndex + 1)

\* The loop of the displayStructure memo: for (const word of originalWords) ...
RECURSIVE BuildDisplay(_, _)
BuildDisplay(words, currentLogicIndex) ==
    IF words = <<>> THEN <<>>
    ELSE LET word == Head(words) IN
         IF IsWaqf(word)
         THEN <<[type |-> "waqf", text |-> word, logicIndex |-> currentLogicIndex]>>
              \o BuildDisplay(Tail(words), currentLogicIndex)
         ELSE <<[type |-> "word", text |-> word, logicIndex |-> currentLogicIndex + 1]>>
              \o BuildDisplay(Tail(words), currentLogicIndex + 1)

\* displayStructure of the memo at MemorizationView: empty for an empty text
displayStructure(text) ==
    IF text = <<>> THEN <<>> ELSE BuildDisplay(originalWords(text), -1)

\* logicWords of the same memo: the cleaned text of every word fragment
RECURSIVE CleanEach(_)
CleanEach(words) ==
    IF words = <<>> THEN <<>>
    ELSE <<cleanArabicText(Head(words))>> \o CleanEach(Tail(words))

logicWords(text) ==
    IF text = <<>> THEN <<>>
    ELSE CleanEach(SelectSeq(originalWords(text), LAMBDA w : ~IsWaqf(w)))

\* getWordsForAyah: the word fragments of a verse, used by handlePreviousWord
getWordsForAyah(text) ==
    IF text = <<>> THEN <<>>
    ELSE SelectSeq(originalWords(text), LAMBDA w : Len(Trim(cleanArabicText(w))) > 0)

\* ----------------------------------------------------------------- scoring
\* Math.exp of calculateScore is computed in fixed point: FixOne stands for 1.0
\* and ExpMinusOne for exp(-1).  A product of two fixed-point numbers is taken
\* in two halves so that no intermediate value leaves 32 bits.
FixOne == 1000000
ExpMinusOne == 367879
TaylorTerms == 14

brutalityFactor == 50
forgotWeightTenths == 10     \* forgotWeight = 1.0
tajwidWeightTenths == 6      \* tajwidWeight = 0.6

MulFix(a, b) == ((a * (b \div 1000)) \div (FixOne \div 1000)) + ((a * (b % 1000)) \div FixOne)

\* exp(-r/den) for 0 <= r < den: the alternating Taylor sum, term k being
\* term k-1 times r / (den * k).
RECURSIVE TaylorFrom(_, _, _, _, _)
TaylorFrom(r, den, k, term, sum) ==
    IF k > TaylorTerms THEN sum
    ELSE LET next == (term * r) \div (den * k) IN
         TaylorFrom(r, den, k + 1, next, IF k % 2 = 1 THEN sum - next ELSE sum + next)

RECURSIVE TimesExpMinusOne(_, _)
TimesExpMinusOne(v, q) ==
    IF q = 0 \/ v = 0 THEN v ELSE TimesExpMinusOne(MulFix(v, ExpMinusOne), q - 1)

\* FixOne * exp(-num/den), num >= 0, den > 0
ExpNeg(num, den) ==
    TimesExpMinusOne(TaylorFrom(num % den, den, 1, FixOne, FixOne), num \div den)

\* Math.round of n times a fixed-point number e, 0 <= e <= FixOne: halves go
\* up.  The product is taken in two halves so that it stays within 32 bits.
RoundFix(n, e) ==
    ((n * (e \div 1000)) + (((n * (e % 1000)) + (FixOne \div 2)) \div 1000))
        \div (FixOne \div 1000)

\* A plausible slip: the perfect run is reported as a percentage, not as N.
calculateScorePercent(stats) ==
    LET N == stats.totalWords
        weightedMistakes == stats.forgotCount * forgotWeightTenths
                            + stats.tajwidCount * tajwidWeightTenths
    IN IF N = 0 THEN 0
       ELSE IF weightedMistakes = 0 THEN 100
       ELSE RoundFix(N, ExpNeg(brutalityFactor * weightedMistakes, 10 * N))

\* A plausible slip: a Tajwid mistake weighs as much as a Forgot mistake.
calculateScoreEqualWeights(stats) ==
    LET N == stats.totalWords
        weightedMistakes == stats.forgotCount * forgotWeightTenths
                            + stats.tajwidCount * forgotWeightTenths
    IN IF N = 0 THEN 0
       ELSE IF weightedMistakes = 0 THEN N
       ELSE RoundFix(N, ExpNeg(brutalityFactor * weightedMistakes, 10 * N))

\* calculateScore of the summary modal; weightedMistakes is held in tenths, so
\* mistakeRatio * brutalityFactor = brutalityFactor * weightedMistakes / (10 * N)
calculateScore(stats) ==
    LET N == stats.totalWords
        weightedMistakes == stats.forgotCount * forgotWeightTenths
                            + stats.tajwidCount * tajwidWeightTenths
    IN IF N = 0 THEN 0
       ELSE IF weightedMistakes = 0 THEN N
       ELSE RoundFix(N, ExpNeg(brutalityFactor * weightedMistakes, 10 * N))

\* calculateScore of the analysis view, the same statements as in the modal
analysisCalculateScore(stats) ==
    LET N == stats.totalWords
        weightedMistakes == stats.forgotCount * forgotWeightTenths
                            + stats.tajwidCount * tajwidWeightTenths
    IN IF N = 0 THEN 0
       ELSE IF weightedMistakes = 0 THEN N
       ELSE RoundFix(N, ExpNeg(brutalityFactor * weightedMistakes, 10 * N))

\* Accuracies are held in hundredths of a percent, the unit of toFixed(2).
AccScale == 100
FullAccuracy == 100 * AccScale

Ranks == <<"F", "D", "C", "B", "A", "S", "SS", "SSS", "X">>
RankOrder(r) == CHOOSE i \in 1..Len(Ranks) : Ranks[i] = r

\* A plausible slip: the lower bound of a band is taken exclusive.
getRankExclusive(accuracy) ==
    IF accuracy = 10000 THEN "X"
    ELSE IF accuracy > 9950 THEN "SSS"
    ELSE IF accuracy > 9900 THEN "SS"
    ELSE IF accuracy > 9800 THEN "S"
    ELSE IF accuracy > 9500 THEN "A"
    ELSE IF accuracy > 9000 THEN "B"
    ELSE IF accuracy > 8250 THEN "C"
    ELSE IF accuracy > 7500 THEN "D"
    ELSE "F"

\* A plausible slip: the top rank is given from 99.5 up.
getRankWideX(accuracy) ==
    IF accuracy >= 9950 THEN "X"
    ELSE IF accuracy >= 9900 THEN "SS"
    ELSE IF accuracy >= 9800 THEN "S"
    ELSE IF accuracy >= 9500 THEN "A"
    ELSE IF accuracy >= 9000 THEN "B"
    ELSE IF accuracy >= 8250 THEN "C"
    ELSE IF accuracy >= 7500 THEN "D"
    ELSE "F"

\* getRank, on an accuracy in hundredths (99.5 is 9950)
getRank(accuracy) ==
    IF accuracy = 10000 THEN "X"
    ELSE IF accuracy >= 9950 THEN "SSS"
    ELSE IF accuracy >= 9900 THEN "SS"
    ELSE IF accuracy >= 9800 THEN "S"
    ELSE IF accuracy >= 9500 THEN "A"
    ELSE IF accuracy >= 9000 THEN "B"
    ELSE IF accuracy >= 8250 THEN "C"
    ELSE IF accuracy >= 7500 THEN "D"
    ELSE "F"

\* ------------------------------------------------------------ export layout
canvasWidth == 500
padding == 40
contentWidth == canvasWidth - (padding * 2)

\* ctx.measureText(text).width: the advance widths of the characters added up.
\* A font gives the width of a letter, of a mark and of white space.
LetterWidths == {100, 210}
MarkWidths == {0, 30}
SpaceWidths == {5}
Fonts == [letter : LetterWidths, mark : MarkWidths, space : SpaceWidths]

CharWidth(c, font) ==
    IF IsMark(c) THEN font.mark ELSE IF IsWhite(c) THEN font.space ELSE font.letter

RECURSIVE measureText(_, _)
measureText(text, font) ==
    IF text = <<>> THEN 0 ELSE CharWidth(Head(text), font) + measureText(Tail(text), font)

NoMistake == "none"

\* mistakesForThisAyah.find(m => m.wordIndex === currentLogicIndex)
RECURSIVE FindMistake(_, _)
FindMistake(ms, wordIndex) ==
    IF ms = <<>> THEN NoMistake
    ELSE IF Head(ms).wordIndex = wordIndex THEN Head(ms).type
    ELSE FindMistake(Tail(ms), wordIndex)

\* itemsToRender of the export: every fragment, a word with its mistake if any
RECURSIVE BuildItems(_, _, _)
BuildItems(words, mistakesForThisAyah, currentLogicIndex) ==
    IF words = <<>> THEN <<>>
    ELSE LET word == Head(words) IN
         IF Len(Trim(cleanArabicText(word))) > 0
         THEN <<[text |-> word, mistake |-> FindMistake(mistakesForThisAyah, currentLogicIndex)]>>
              \o BuildItems(Tail(words), mistakesForThisAyah, currentLogicIndex + 1)
         ELSE <<[text |-> word, mistake |-> NoMistake]>>
              \o BuildItems(Tail(words), mistakesForThisAyah, currentLogicIndex)

itemsToRender(text, mistakesForThisAyah) ==
    BuildItems(originalWords(text), mistakesForThisAyah, 0)

\* A plausible slip: the break test forgets the space that joins the item to the line.
RECURSIVE BreakLinesNoSpace(_, _, _, _, _)
BreakLinesNoSpace(items, font, lines, currentLine, currentLineWidth) ==
    IF items = <<>>
    THEN IF Len(currentLine) > 0 THEN Append(lines, currentLine) ELSE lines
    ELSE LET item == Head(items)
             wordWidth == measureText(item.text, font)
             spaceWidth == measureText(<<Space>>, font)
         IN IF currentLineWidth + wordWidth > contentWidth
            THEN BreakLinesNoSpace(Tail(items), font, Append(lines, currentLine),
                                   <<item>>, wordWidth)
            ELSE BreakLinesNoSpace(Tail(items), font, lines, Append(currentLine, item),
                                   currentLineWidth + wordWidth
                                   + (IF Len(currentLine) + 1 > 1 THEN spaceWidth ELSE 0))

\* The greedy line breaker of the render pass: for (const item of itemsToRender) ...
RECURSIVE BreakLines(_, _, _, _, _)
BreakLines(items, font, lines, currentLine, currentLineWidth) ==
    IF items = <<>>
    THEN IF Len(currentLine) > 0 THEN Append(lines, currentLine) ELSE lines
    ELSE LET item == Head(items)
             wordWidth == measureText(item.text, font)
             spaceWidth == measureText(<<Space>>, font)
         IN IF currentLineWidth + wordWidth
               + (IF Len(currentLine) > 0 THEN spaceWidth ELSE 0) > contentWidth
            THEN BreakLines(Tail(items), font, Append(lines, currentLine),
                            <<item>>, wordWidth)
            ELSE BreakLines(Tail(items), font, lines, Append(currentLine, item),
                            currentLineWidth + wordWidth
                            + (IF Len(currentLine) + 1 > 1 THEN spaceWidth ELSE 0))

linesOfItems(items, font) == BreakLines(items, font, <<>>, <<>>, 0)

\* ------------------------------------------------ Analysis view display
\* mistakes.find(m => m.ayahIndex === ayahIndex && m.wordIndex === item.logicIndex)
RECURSIVE FindMistakeAt(_, _, _)
FindMistakeAt(ms, ayahIndex, wordIndex) ==
    IF ms = <<>> THEN NoMistake
    ELSE IF Head(ms).ayahIndex = ayahIndex /\ Head(ms).wordIndex = wordIndex
    THEN Head(ms).type
    ELSE FindMistakeAt(Tail(ms), ayahIndex, wordIndex)

\* A plausible slip: the counter of the Analysis view starts at 1.
RECURSIVE BuildSpansFromOne(_, _, _, _)
BuildSpansFromOne(words, ms, ayahIndex, logicWordCounter) ==
    IF words = <<>> THEN <<>>
    ELSE LET word == Head(words) IN
         IF Len(Trim(cleanArabicText(word))) = 0
         THEN <<[type |-> "waqf", text |-> word, mistake |-> NoMistake]>>
              \o BuildSpansFromOne(Tail(words), ms, ayahIndex, logicWordCounter)
         ELSE <<[type |-> "word", text |-> word, logicIndex |-> logicWordCounter + 1,
                 mistake |-> FindMistakeAt(ms, ayahIndex, logicWordCounter + 1)]>>
              \o BuildSpansFromOne(Tail(words), ms, ayahIndex, logicWordCounter + 1)

\* the loop and the map of the displayableItems memo: a span per fragment, a
\* word's span classed by the Mistake found for its logic index
RECURSIVE BuildSpans(_, _, _, _)
BuildSpans(words, ms, ayahIndex, logicWordCounter) ==
    IF words = <<>> THEN <<>>
    ELSE LET word == Head(words) IN
         IF Len(Trim(cleanArabicText(word))) = 0
         THEN <<[type |-> "waqf", text |-> word, mistake |-> NoMistake]>>
              \o BuildSpans(Tail(words), ms, ayahIndex, logicWordCounter)
         ELSE <<[type |-> "word", text |-> word, logicIndex |-> logicWordCounter,
                 mistake |-> FindMistakeAt(ms, ayahIndex, logicWordCounter)]>>
              \o BuildSpans(Tail(words), ms, ayahIndex, logicWordCounter + 1)

displayableItems(text, ms, ayahIndex) == BuildSpans(originalWords(text), ms, ayahIndex, 0)

\* ---------------------------------------------------- review section
\* A plausible slip: the test for a preamble verse is left out of the grouping.
RECURSIVE ReduceMistakesKeepsPreamble(_, _, _)
ReduceMistakesKeepsPreamble(list, ms, acc) ==
    IF ms = <<>> THEN acc
    ELSE LET mistake == Head(ms) IN
         IF mistake.ayahIndex \in 0..(Len(list) - 1)
         THEN ReduceMistakesKeepsPreamble(list, Tail(ms),
                  IF mistake.ayahIndex \in DOMAIN acc
                  THEN [acc EXCEPT ![mistake.ayahIndex] = Append(@, mistake)]
                  ELSE acc @@ (mistake.ayahIndex :> <<mistake>>))
         ELSE ReduceMistakesKeepsPreamble(list, Tail(ms), acc)

\* stats.mistakes.reduce(...): acc maps a verse index to the mistakes of the
\* verse; list[mistake.ayahIndex] is undefined outside 0..length-1
RECURSIVE ReduceMistakes(_, _, _)
ReduceMistakes(list, ms, acc) ==
    IF ms = <<>> THEN acc
    ELSE LET mistake == Head(ms) IN
         IF /\ mistake.ayahIndex \in 0..(Len(list) - 1)
            /\ list[mistake.ayahIndex + 1].number # 0
         THEN ReduceMistakes(list, Tail(ms),
                  IF mistake.ayahIndex \in DOMAIN acc
                  THEN [acc EXCEPT ![mistake.ayahIndex] = Append(@, mistake)]
                  ELSE acc @@ (mistake.ayahIndex :> <<mistake>>))
         ELSE ReduceMistakes(list, Tail(ms), acc)

mistakesByAyah(list, ms) == ReduceMistakes(list, ms, <<>>)

\* Object.keys(mistakesByAyah).length > 0
hasMistakes(groups) == DOMAIN groups # {}

\* the fill colours of the highlight rectangle
forgotColour == "rgba(239, 68, 68, 0.3)"
tajwidColour == "rgba(245, 158, 11, 0.3)"
textColour == "text"

\* a canvas call: fillRect(x, ., width, .) or fillText(text, x, .)
CanvasOp(op, ayahIndex, text, x, width, colour) ==
    [op |-> op, ayahIndex |-> ayahIndex, text |-> text, x |-> x, width |-> width,
     colour |-> colour]

\* A plausible slip: every highlight is filled with the Forgot colour.
RECURSIVE DrawLineOneColour(_, _, _, _)
DrawLineOneColour(line, font, currentX, ayahIndex) ==
    IF line = <<>> THEN <<>>
    ELSE LET wordToDraw == Head(line)
             width == measureText(wordToDraw.text, font)
             spaceWidth == measureText(<<Space>>, font)
         IN (IF wordToDraw.mistake # NoMistake
             THEN <<CanvasOp("fillRect", ayahIndex, wordToDraw.text, currentX - width,
                             width, forgotColour)>>
             ELSE <<>>)
            \o <<CanvasOp("fillText", ayahIndex, wordToDraw.text, currentX, width,
                          textColour)>>
            \o DrawLineOneColour(Tail(line), font, currentX - (width + spaceWidth),
                                 ayahIndex)

\* for (const wordToDraw of line): the highlight, then the text, right to left
RECURSIVE DrawLine(_, _, _, _)
DrawLine(line, font, currentX, ayahIndex) ==
    IF line = <<>> THEN <<>>
    ELSE LET wordToDraw == Head(line)
             width == measureText(wordToDraw.text, font)
             spaceWidth == measureText(<<Space>>, font)
         IN (IF wordToDraw.mistake # NoMistake
             THEN <<CanvasOp("fillRect", ayahIndex, wordToDraw.text, currentX - width,
                             width, IF wordToDraw.mistake = "forgot" THEN forgotColour
                                    ELSE tajwidColour)>>
             ELSE <<>>)
            \o <<CanvasOp("fillText", ayahIndex, wordToDraw.text, currentX, width,
                          textColour)>>
            \o DrawLine(Tail(line), font, currentX - (width + spaceWidth), ayahIndex)

\* for (const line of linesOfItems)
RECURSIVE DrawLines(_, _, _)
DrawLines(lines, font, ayahIndex) ==
    IF lines = <<>> THEN <<>>
    ELSE DrawLine(Head(lines), font, canvasWidth - padding, ayahIndex)
         \o DrawLines(Tail(lines), font, ayahIndex)

\* one verse of the review section: its heading, then its words
DrawVerse(list, groups, ayahIndex, font) ==
    <<CanvasOp("heading", ayahIndex, <<>>, padding, 0, textColour)>>
    \o DrawLines(linesOfItems(itemsToRender(list[ayahIndex + 1].text, groups[ayahIndex]),
                              font),
                 font, ayahIndex)

\* for (const ayahIndexStr in mistakesByAyah): integer keys in ascending order
RECURSIVE DrawVerses(_, _, _, _)
DrawVerses(list, groups, keys, font) ==
    IF keys = {} THEN <<>>
    ELSE LET ayahIndex == CHOOSE k \in keys : \A other \in keys : k <= other IN
         DrawVerse(list, groups, ayahIndex, font)
         \o DrawVerses(list, groups, keys \ {ayahIndex}, font)

\* the review section of handleSaveAndDownload: drawn if (hasMistakes)
reviewSection(list, groups, font) ==
    IF hasMistakes(groups)
    THEN <<CanvasOp("title", -1, <<>>, canvasWidth \div 2, 0, textColour)>>
         \o DrawVerses(list, groups, DOMAIN groups, font)
    ELSE <<>>

\* --------------------------------------------------- canvas height
\* textWithSpaces.split(' ').filter(w => cleanArabicText(w).trim().length > 0):
\* the pre-pass measures the word fragments only
prePassWords(text) ==
    SelectSeq(SplitOnSpace(ReplaceMarks(text)),
              LAMBDA w : Len(Trim(cleanArabicText(w))) > 0)

\* for (const word of words) of the pre-pass: lines starts at 1
RECURSIVE CountLines(_, _, _, _)
CountLines(words, font, lines, currentLineWidth) ==
    IF words = <<>> THEN lines
    ELSE LET wordWidth == measureText(Head(words), font)
             spaceWidth == measureText(<<Space>>, font)
             joined == currentLineWidth + wordWidth
                       + (IF currentLineWidth > 0 THEN spaceWidth ELSE 0)
         IN IF joined > contentWidth
            THEN CountLines(Tail(words), font, lines + 1, wordWidth)
            ELSE CountLines(Tail(words), font, lines, joined)

\* the lines the pre-pass counts for a verse, none for a verse without words
prePassLines(text, font) ==
    IF prePassWords(text) = <<>> THEN 0
    ELSE CountLines(prePassWords(text), font, 1, 0)

\* what the pre-pass adds to mistakesHeight for a verse
prePassVerseHeight(text, font) ==
    40 + (IF prePassWords(text) = <<>> THEN 20
          ELSE (prePassLines(text, font) * 35) + 20)

\* what the drawing pass adds to currentY for a verse: the heading, 35 for
\* every line of linesOfItems, the gap
drawnVerseHeight(lines) == 30 + (35 * Len(lines)) + 20

\* ------------------------------------------------------------------ session
\* The preamble of a chapter (App.tsx): four words, no mark of the class.
BISMILLAH_ARABIC == <<"a", " ", "a", " ", "a", " ", "a">>

\* The texts of the real verses of a session: one word; three words, one
\* of them with a pause mark attached.
VerseTexts == {<<"a">>, <<"a", " ", "a", "m", " ", "a">>}

\* The lists the data loader (App.tsx) hands over: a preamble (number 0) is
\* followed by verse 1 of its chapter, other verses count on from the one before.
WellFormedList(list) ==
    \A i \in 1..Len(list) :
        IF list[i].number = 0
        THEN /\ list[i].text = BISMILLAH_ARABIC
             /\ i < Len(list)
             /\ list[i + 1].number = 1
        ELSE /\ list[i].text \in VerseTexts
             /\ list[i].number = (IF i = 1 \/ list[i - 1].number = 0 THEN 1
                                  ELSE list[i - 1].number + 1)

AyahRecords == [number : 0..MaxAyahs, text : VerseTexts \cup {BISMILLAH_ARABIC}]

\* A Juz may hold several chapters, each with its preamble; a single chapter
\* has its preamble, if any, at index 0 only.
AyahLists(juz) ==
    {list \in UNION {[1..k -> AyahRecords] : k \in 1..MaxAyahs} :
        /\ WellFormedList(list)
        /\ juz \/ \A i \in 2..Len(list) : list[i].number # 0}

\* Texts without a logical word: the empty text, which the loader makes of a
\* first verse that is nothing but the preamble's words
\* (text.substring(BISMILLAH_ARABIC.length).trim()), and a lone pause mark.
ZeroWordTexts == {<<>>, <<Mark>>}

\* The lists in which some real verses have a text without a logical word.
SparseLists(juz) ==
    {[i \in 1..Len(list) |->
         IF i \in blanks /\ list[i].number # 0
         THEN [number |-> list[i].number, text |-> text] ELSE list[i]] :
       list \in AyahLists(juz), blanks \in SUBSET (1..MaxAyahs), text \in ZeroWordTexts}

FindIndexNumber(n) ==
    IF \E i \in 1..Len(ayahs) : ayahs[i].number = n
    THEN (CHOOSE i \in 1..Len(ayahs) :
             /\ ayahs[i].number = n
             /\ \A j \in 1..(i - 1) : ayahs[j].number # n) - 1
    ELSE -1

\* ayahs.findIndex(a => a.number > 0)
firstRealVerseIndex ==
    IF \E i \in 1..Len(ayahs) : ayahs[i].number > 0
    THEN (CHOOSE i \in 1..Len(ayahs) :
             /\ ayahs[i].number > 0
             /\ \A j \in 1..(i - 1) : ~(ayahs[j].number > 0)) - 1
    ELSE -1

hasPreamble == ayahs[1].number = 0

getInitialIndex ==
    IF isJuzMode THEN 0
    ELSE IF hasPreamble THEN 0
    ELSE IF FindIndexNumber(startAyah) # -1 THEN FindIndexNumber(startAyah) ELSE 0

currentAyah == ayahs[currentAyahIndex + 1]

\* currentAyahWords.length, the number of logic words of the verse on screen
currentAyahWordCount == Len(logicWords(currentAyah.text))

isPreambleScreen == ~sessionStarted \/ currentAyah.number = 0

mistakeMarkedForWord ==
    \E i \in 1..Len(mistakes) :
        mistakes[i].ayahIndex = currentAyahIndex /\ mistakes[i].wordIndex = currentWordIndex

\* A plausible slip: every entry of the log is counted as Forgot.
forgotCountAll == Len(mistakes)

forgotCount == Len(SelectSeq(mistakes, LAMBDA m : m.type = "forgot"))
tajwidCount == Len(SelectSeq(mistakes, LAMBDA m : m.type = "tajwid"))

\* A plausible slip: a Tajwid mistake weighs as much as a Forgot mistake.
AccuracyFullTajwid(totalWords, forgot, tajwid) ==
    LET twice == 2 * totalWords - (2 * forgot + 2 * tajwid) IN
    IF twice <= 0 THEN 0 ELSE (FullAccuracy * twice + totalWords) \div (2 * totalWords)

\* A plausible slip: toFixed replaced by a truncation to two decimals.
AccuracyTruncated(totalWords, forgot, tajwid) ==
    LET twice == 2 * totalWords - (2 * forgot + tajwid) IN
    IF twice <= 0 THEN 0 ELSE (FullAccuracy * twice) \div (2 * totalWords)

\* parseFloat(Math.max(0, ((totalWords - totalMistakes) / totalWords) * 100).toFixed(2))
\* in hundredths, totalMistakes = forgotCount + tajwidCount * 0.5; toFixed
\* rounds to the nearest hundredth, a half going up.
Accuracy(totalWords, forgot, tajwid) ==
    LET twice == 2 * totalWords - (2 * forgot + tajwid) IN
    IF twice <= 0 THEN 0 ELSE (FullAccuracy * twice + totalWords) \div (2 * totalWords)

\* the stats object endMemorizationSession builds
SessionStatsNow ==
    [totalWords |-> totalWordsInSession,
     forgotCount |-> forgotCount,
     tajwidCount |-> tajwidCount,
     accuracy |-> Accuracy(totalWordsInSession, forgotCount, tajwidCount),
     mistakes |-> mistakes]

\* A plausible slip: the snapshot is stored and the summary is not shown.
endMemorizationSessionHidden ==
    IF totalWordsInSession = 0
    THEN UNCHANGED <<sessionStats, showSummary>>
    ELSE /\ sessionStats' = <<SessionStatsNow>>
         /\ UNCHANGED showSummary

\* endMemorizationSession: nothing when no word was counted
endMemorizationSession ==
    IF totalWordsInSession = 0
    THEN UNCHANGED <<sessionStats, showSummary>>
    ELSE /\ sessionStats' = <<SessionStatsNow>>
         /\ showSummary' = TRUE

\* positions are compared verse first, word second
PosLeq(a, b) == a[1] < b[1] \/ (a[1] = b[1] /\ a[2] <= b[2])
PosMax(a, b) == IF PosLeq(a, b) THEN b ELSE a

\* the end-to-end scenario: advance, advance, mark Forgot, advance
ScenarioOps == <<"next", "next", "forgot", "next">>
ScenarioAfter(op) ==
    IF scenario >= 0 /\ scenario < Len(ScenarioOps) /\ ScenarioOps[scenario + 1] = op
    THEN scenario + 1 ELSE -1

\* the history after a handler that keeps the session going
Remember(op, outcome) ==
    /\ lastOp' = outcome
    /\ scenario' = ScenarioAfter(op)
    /\ furthestSeen' = furthestSeen \cup {<<furthestAyahIndex', furthestWordIndex'>>}
    /\ peak' = PosMax(peak, PosMax(<<currentAyahIndex', currentWordIndex'>>,
                                   <<furthestAyahIndex', furthestWordIndex'>>))
    /\ UNCHANGED forwardOnly

\* the history of a session that starts over
RememberFresh(outcome) ==
    /\ lastOp' = outcome
    /\ scenario' = 0
    /\ furthestSeen' = {<<furthestAyahIndex', furthestWordIndex'>>}
    /\ peak' = <<furthestAyahIndex', furthestWordIndex'>>
    /\ UNCHANGED forwardOnly

\* The state of the component once mounted with the props at hand: the
\* useState initial values and the effect that runs on mount.
MountedState ==
    LET initialIndex == getInitialIndex
        shouldShowStartScreen == initialIndex = 0 /\ hasPreamble
    IN /\ currentAyahIndex = initialIndex
       /\ sessionStarted = ~shouldShowStartScreen
       /\ currentWordIndex = 0
       /\ mistakes = <<>>
       /\ showSummary = FALSE
       /\ sessionStats = NullStats
       /\ furthestAyahIndex = initialIndex
       /\ furthestWordIndex = 0
       /\ sessionStartIndex = initialIndex
       /\ totalWordsInSession = (IF shouldShowStartScreen THEN 0 ELSE 1)
       /\ lastOp = "create"
       /\ scenario = 0
       /\ furthestSeen = {<<initialIndex, 0>>}
       /\ peak = <<initialIndex, 0>>
       /\ forwardOnly = FALSE

\* The state after construction, over the lists the data loader hands over.
SessionInit ==
    /\ isJuzMode \in BOOLEAN
    /\ ayahs \in AyahLists(isJuzMode)
    /\ startAyah \in (IF isJuzMode THEN {1} ELSE 1..(ayahs[Len(ayahs)].number + 1))
    /\ MountedState

\* A plausible slip: the search for the first real verse is left out, so the
\* fallback is index 0.
verseToStartIndexFromZero ==
    IF ~isJuzMode /\ FindIndexNumber(startAyah) # -1 THEN FindIndexNumber(startAyah) ELSE 0

\* verseToStartIndex of handleStartMemorization (the very first start)
verseToStartIndex ==
    LET fallback == IF firstRealVerseIndex # -1 THEN firstRealVerseIndex ELSE 0 IN
    IF ~isJuzMode /\ FindIndexNumber(startAyah) # -1 THEN FindIndexNumber(startAyah)
    ELSE fallback

\* A plausible slip: the first start seeds the word count with 0, the first
\* word on screen not being counted.
HandleStartSeedsZero ==
    /\ isPreambleScreen /\ ~showSummary
    /\ IF sessionStarted
       THEN LET nextAyahIndex == currentAyahIndex + 1 IN
            IF nextAyahIndex < Len(ayahs)
            THEN /\ totalWordsInSession < MaxSessionWords
                 /\ currentAyahIndex' = nextAyahIndex
                 /\ currentWordIndex' = 0
                 /\ totalWordsInSession' = totalWordsInSession + 1
                 /\ furthestAyahIndex' = nextAyahIndex
                 /\ furthestWordIndex' = 0
                 /\ UNCHANGED <<mistakes, sessionStartIndex, showSummary, sessionStats,
                                sessionStarted>>
            ELSE /\ endMemorizationSession
                 /\ UNCHANGED <<currentAyahIndex, currentWordIndex, mistakes,
                                totalWordsInSession, furthestAyahIndex, furthestWordIndex,
                                sessionStartIndex, sessionStarted>>
       ELSE /\ currentAyahIndex' = verseToStartIndex
            /\ currentWordIndex' = 0
            /\ mistakes' = <<>>
            /\ totalWordsInSession' = 0
            /\ sessionStarted' = TRUE
            /\ furthestAyahIndex' = verseToStartIndex
            /\ furthestWordIndex' = 0
            /\ sessionStartIndex' = verseToStartIndex
            /\ UNCHANGED <<showSummary, sessionStats>>
    /\ IF sessionStarted
       THEN Remember("start", IF currentAyahIndex + 1 < Len(ayahs)
                              THEN "startNext" ELSE "startEnd")
       ELSE RememberFresh("start")
    /\ UNCHANGED <<propVars, pureVars>>

\* The start button, shown on the preamble screen.
HandleStartMemorization ==
    /\ isPreambleScreen /\ ~showSummary
    /\ IF sessionStarted
       THEN LET nextAyahIndex == currentAyahIndex + 1 IN
            IF nextAyahIndex < Len(ayahs)
            THEN /\ totalWordsInSession < MaxSessionWords
                 /\ currentAyahIndex' = nextAyahIndex
                 /\ currentWordIndex' = 0
                 /\ totalWordsInSession' = totalWordsInSession + 1
                 /\ furthestAyahIndex' = nextAyahIndex
                 /\ furthestWordIndex' = 0
                 /\ UNCHANGED <<mistakes, sessionStartIndex, showSummary, sessionStats,
                                sessionStarted>>
            ELSE /\ endMemorizationSession
                 /\ UNCHANGED <<currentAyahIndex, currentWordIndex, mistakes,
                                totalWordsInSession, furthestAyahIndex, furthestWordIndex,
                                sessionStartIndex, sessionStarted>>
       ELSE /\ currentAyahIndex' = verseToStartIndex
            /\ currentWordIndex' = 0
            /\ mistakes' = <<>>
            /\ totalWordsInSession' = 1
            /\ sessionStarted' = TRUE
            /\ furthestAyahIndex' = verseToStartIndex
            /\ furthestWordIndex' = 0
            /\ sessionStartIndex' = verseToStartIndex
            /\ UNCHANGED <<showSummary, sessionStats>>
    /\ IF sessionStarted
       THEN Remember("start", IF currentAyahIndex + 1 < Len(ayahs)
                              THEN "startNext" ELSE "startEnd")
       ELSE RememberFresh("start")
    /\ UNCHANGED <<propVars, pureVars>>

\* A plausible slip: every forward press counts, the furthest mark is not asked.
HandleNextWordCountsPresses ==
    /\ ~isPreambleScreen /\ ~showSummary
    /\ LET isLastWordInAyah == currentWordIndex >= currentAyahWordCount - 1
           nextAyahIndex == currentAyahIndex + 1
       IN IF ~isLastWordInAyah
          THEN /\ totalWordsInSession < MaxSessionWords
               /\ currentWordIndex' = currentWordIndex + 1
               /\ furthestWordIndex' = currentWordIndex + 1
               /\ totalWordsInSession' = totalWordsInSession + 1
               /\ UNCHANGED <<currentAyahIndex, furthestAyahIndex, mistakes,
                              sessionStartIndex, showSummary, sessionStats, sessionStarted>>
          ELSE IF nextAyahIndex < Len(ayahs)
          THEN /\ totalWordsInSession < MaxSessionWords
               /\ currentAyahIndex' = nextAyahIndex
               /\ currentWordIndex' = 0
               /\ furthestAyahIndex' = nextAyahIndex
               /\ furthestWordIndex' = 0
               /\ totalWordsInSession' = totalWordsInSession + 1
               /\ UNCHANGED <<mistakes, sessionStartIndex, showSummary, sessionStats,
                              sessionStarted>>
          ELSE /\ endMemorizationSession
               /\ UNCHANGED <<currentAyahIndex, currentWordIndex, mistakes,
                              totalWordsInSession, furthestAyahIndex, furthestWordIndex,
                              sessionStartIndex, sessionStarted>>
    /\ Remember("next", IF currentWordIndex >= currentAyahWordCount - 1
                            /\ ~(currentAyahIndex + 1 < Len(ayahs))
                         THEN "nextEnd" ELSE "next")
    /\ UNCHANGED <<propVars, pureVars>>

\* A plausible slip: a step into the next verse takes the furthest word index
\* along and leaves the furthest verse index behind.
HandleNextWordKeepsFurthestAyah ==
    /\ ~isPreambleScreen /\ ~showSummary
    /\ LET isAtFurthestProgress == /\ currentAyahIndex = furthestAyahIndex
                                   /\ currentWordIndex = furthestWordIndex
           isLastWordInAyah == currentWordIndex >= currentAyahWordCount - 1
           nextAyahIndex == currentAyahIndex + 1
       IN IF ~isLastWordInAyah
          THEN /\ currentWordIndex' = currentWordIndex + 1
               /\ IF isAtFurthestProgress
                  THEN /\ totalWordsInSession < MaxSessionWords
                       /\ furthestWordIndex' = currentWordIndex + 1
                       /\ totalWordsInSession' = totalWordsInSession + 1
                  ELSE UNCHANGED <<furthestWordIndex, totalWordsInSession>>
               /\ UNCHANGED <<currentAyahIndex, furthestAyahIndex, mistakes,
                              sessionStartIndex, showSummary, sessionStats, sessionStarted>>
          ELSE IF nextAyahIndex < Len(ayahs)
          THEN /\ currentAyahIndex' = nextAyahIndex
               /\ currentWordIndex' = 0
               /\ IF isAtFurthestProgress
                  THEN /\ UNCHANGED furthestAyahIndex
                       /\ furthestWordIndex' = 0
                       /\ IF ayahs[nextAyahIndex + 1].number # 0
                          THEN /\ totalWordsInSession < MaxSessionWords
                               /\ totalWordsInSession' = totalWordsInSession + 1
                          ELSE UNCHANGED totalWordsInSession
                  ELSE UNCHANGED <<furthestAyahIndex, furthestWordIndex,
                                   totalWordsInSession>>
               /\ UNCHANGED <<mistakes, sessionStartIndex, showSummary, sessionStats,
                              sessionStarted>>
          ELSE /\ endMemorizationSession
               /\ UNCHANGED <<currentAyahIndex, currentWordIndex, mistakes,
                              totalWordsInSession, furthestAyahIndex, furthestWordIndex,
                              sessionStartIndex, sessionStarted>>
    /\ Remember("next", IF currentWordIndex >= currentAyahWordCount - 1
                            /\ ~(currentAyahIndex + 1 < Len(ayahs))
                         THEN "nextEnd" ELSE "next")
    /\ UNCHANGED <<propVars, pureVars>>

\* A plausible slip: on the last word of the last verse the next-word button
\* does nothing.
HandleNextWordStopsAtLastWord ==
    /\ ~isPreambleScreen /\ ~showSummary
    /\ ~(currentWordIndex >= currentAyahWordCount - 1 /\ ~(currentAyahIndex + 1 < Len(ayahs)))
    /\ LET isAtFurthestProgress == /\ currentAyahIndex = furthestAyahIndex
                                   /\ currentWordIndex = furthestWordIndex
           isLastWordInAyah == currentWordIndex >= currentAyahWordCount - 1
           nextAyahIndex == currentAyahIndex + 1
       IN IF ~isLastWordInAyah
          THEN /\ currentWordIndex' = currentWordIndex + 1
               /\ IF isAtFurthestProgress
                  THEN /\ totalWordsInSession < MaxSessionWords
                       /\ furthestWordIndex' = currentWordIndex + 1
                       /\ totalWordsInSession' = totalWordsInSession + 1
                  ELSE UNCHANGED <<furthestWordIndex, totalWordsInSession>>
               /\ UNCHANGED <<currentAyahIndex, furthestAyahIndex, mistakes,
                              sessionStartIndex, showSummary, sessionStats, sessionStarted>>
          ELSE IF nextAyahIndex < Len(ayahs)
          THEN /\ currentAyahIndex' = nextAyahIndex
               /\ currentWordIndex' = 0
               /\ IF isAtFurthestProgress
                  THEN /\ furthestAyahIndex' = nextAyahIndex
                       /\ furthestWordIndex' = 0
                       /\ IF ayahs[nextAyahIndex + 1].number # 0
                          THEN /\ totalWordsInSession < MaxSessionWords
                               /\ totalWordsInSession' = totalWordsInSession + 1
                          ELSE UNCHANGED totalWordsInSession
                  ELSE UNCHANGED <<furthestAyahIndex, furthestWordIndex,
                                   totalWordsInSession>>
               /\ UNCHANGED <<mistakes, sessionStartIndex, showSummary, sessionStats,
                              sessionStarted>>
          ELSE /\ endMemorizationSession
               /\ UNCHANGED <<currentAyahIndex, currentWordIndex, mistakes,
                              totalWordsInSession, furthestAyahIndex, furthestWordIndex,
                              sessionStartIndex, sessionStarted>>
    /\ Remember("next", IF currentWordIndex >= currentAyahWordCount - 1
                            /\ ~(currentAyahIndex + 1 < Len(ayahs))
                         THEN "nextEnd" ELSE "next")
    /\ UNCHANGED <<propVars, pureVars>>

\* The next-word button.
HandleNextWord ==
    /\ ~isPreambleScreen /\ ~showSummary
    /\ LET isAtFurthestProgress == /\ currentAyahIndex = furthestAyahIndex
                                   /\ currentWordIndex = furthestWordIndex
           isLastWordInAyah == currentWordIndex >= currentAyahWordCount - 1
           nextAyahIndex == currentAyahIndex + 1
       IN IF ~isLastWordInAyah
          THEN /\ currentWordIndex' = currentWordIndex + 1
               /\ IF isAtFurthestProgress
                  THEN /\ totalWordsInSession < MaxSessionWords
                       /\ furthestWordIndex' = currentWordIndex + 1
                       /\ totalWordsInSession' = totalWordsInSession + 1
                  ELSE UNCHANGED <<furthestWordIndex, totalWordsInSession>>
               /\ UNCHANGED <<currentAyahIndex, furthestAyahIndex, mistakes,
                              sessionStartIndex, showSummary, sessionStats, sessionStarted>>
          ELSE IF nextAyahIndex < Len(ayahs)
          THEN /\ currentAyahIndex' = nextAyahIndex
               /\ currentWordIndex' = 0
               /\ IF isAtFurthestProgress
                  THEN /\ furthestAyahIndex' = nextAyahIndex
                       /\ furthestWordIndex' = 0
                       /\ IF ayahs[nextAyahIndex + 1].number # 0
                          THEN /\ totalWordsInSession < MaxSessionWords
                               /\ totalWordsInSession' = totalWordsInSession + 1
                          ELSE UNCHANGED totalWordsInSession
                  ELSE UNCHANGED <<furthestAyahIndex, furthestWordIndex,
                                   totalWordsInSession>>
               /\ UNCHANGED <<mistakes, sessionStartIndex, showSummary, sessionStats,
                              sessionStarted>>
          ELSE /\ endMemorizationSession
               /\ UNCHANGED <<currentAyahIndex, currentWordIndex, mistakes,
                              totalWordsInSession, furthestAyahIndex, furthestWordIndex,
                              sessionStartIndex, sessionStarted>>
    /\ Remember("next", IF currentWordIndex >= currentAyahWordCount - 1
                            /\ ~(currentAyahIndex + 1 < Len(ayahs))
                         THEN "nextEnd" ELSE "next")
    /\ UNCHANGED <<propVars, pureVars>>

\* A plausible slip: the refusal at the start of the session is left out.
HandlePreviousWordUnguarded ==
    /\ ~isPreambleScreen /\ ~showSummary
    /\ IF currentWordIndex > 0
       THEN /\ currentWordIndex' = currentWordIndex - 1
            /\ UNCHANGED currentAyahIndex
       ELSE LET prevAyahIndex == currentAyahIndex - 1 IN
            IF prevAyahIndex >= 0
            THEN /\ currentAyahIndex' = prevAyahIndex
                 /\ currentWordIndex' = Len(getWordsForAyah(ayahs[prevAyahIndex + 1].text)) - 1
            ELSE /\ UNCHANGED <<currentAyahIndex, currentWordIndex>>
    /\ UNCHANGED <<mistakes, totalWordsInSession, furthestAyahIndex, furthestWordIndex,
                   sessionStartIndex, showSummary, sessionStats, sessionStarted>>
    /\ Remember("prev", IF currentWordIndex = 0 /\ currentAyahIndex - 1 < 0
                         THEN "prevRefused" ELSE "prev")
    /\ UNCHANGED <<propVars, pureVars>>

\* A plausible slip: a step back inside a verse takes the furthest mark and
\* the count back with it.
HandlePreviousWordUncounts ==
    /\ ~isPreambleScreen /\ ~showSummary
    /\ IF currentAyahIndex = sessionStartIndex /\ currentWordIndex = 0
       THEN /\ UNCHANGED <<currentAyahIndex, currentWordIndex, furthestWordIndex,
                           totalWordsInSession>>
       ELSE IF currentWordIndex > 0
       THEN /\ currentWordIndex' = currentWordIndex - 1
            /\ furthestWordIndex' = currentWordIndex - 1
            /\ totalWordsInSession' = totalWordsInSession - 1
            /\ UNCHANGED currentAyahIndex
       ELSE LET prevAyahIndex == currentAyahIndex - 1 IN
            IF prevAyahIndex >= 0
            THEN /\ currentAyahIndex' = prevAyahIndex
                 /\ currentWordIndex' = Len(getWordsForAyah(ayahs[prevAyahIndex + 1].text)) - 1
                 /\ UNCHANGED <<furthestWordIndex, totalWordsInSession>>
            ELSE /\ UNCHANGED <<currentAyahIndex, currentWordIndex, furthestWordIndex,
                                totalWordsInSession>>
    /\ UNCHANGED <<mistakes, furthestAyahIndex,
                   sessionStartIndex, showSummary, sessionStats, sessionStarted>>
    /\ Remember("prev", IF \/ (currentAyahIndex = sessionStartIndex /\ currentWordIndex = 0)
                            \/ (currentWordIndex = 0 /\ currentAyahIndex - 1 < 0)
                         THEN "prevRefused" ELSE "prev")
    /\ UNCHANGED <<propVars, pureVars>>

\* The previous-word button.
HandlePreviousWord ==
    /\ ~isPreambleScreen /\ ~showSummary
    /\ IF currentAyahIndex = sessionStartIndex /\ currentWordIndex = 0
       THEN /\ UNCHANGED <<currentAyahIndex, currentWordIndex>>
       ELSE IF currentWordIndex > 0
       THEN /\ currentWordIndex' = currentWordIndex - 1
            /\ UNCHANGED currentAyahIndex
       ELSE LET prevAyahIndex == currentAyahIndex - 1 IN
            IF prevAyahIndex >= 0
            THEN /\ currentAyahIndex' = prevAyahIndex
                 /\ currentWordIndex' = Len(getWordsForAyah(ayahs[prevAyahIndex + 1].text)) - 1
            ELSE /\ UNCHANGED <<currentAyahIndex, currentWordIndex>>
    /\ UNCHANGED <<mistakes, totalWordsInSession, furthestAyahIndex, furthestWordIndex,
                   sessionStartIndex, showSummary, sessionStats, sessionStarted>>
    /\ Remember("prev", IF \/ (currentAyahIndex = sessionStartIndex /\ currentWordIndex = 0)
                            \/ (currentWordIndex = 0 /\ currentAyahIndex - 1 < 0)
                         THEN "prevRefused" ELSE "prev")
    /\ UNCHANGED <<propVars, pureVars>>

\* A plausible slip: the new Mistake is put in front of the log.
AddMistakePrepends(type) ==
    /\ ~isPreambleScreen /\ ~showSummary
    /\ IF mistakeMarkedForWord
       THEN /\ UNCHANGED mistakes
       ELSE /\ Len(mistakes) < MaxMistakes
            /\ mistakes' = <<[ayahIndex |-> currentAyahIndex,
                              wordIndex |-> currentWordIndex,
                              type |-> type]>> \o mistakes
    /\ UNCHANGED <<currentAyahIndex, currentWordIndex, totalWordsInSession,
                   furthestAyahIndex, furthestWordIndex, sessionStartIndex,
                   showSummary, sessionStats, sessionStarted>>
    /\ Remember(type, IF ~mistakeMarkedForWord THEN type
                      ELSE IF type = "forgot" THEN "forgotRefused" ELSE "tajwidRefused")
    /\ UNCHANGED <<propVars, pureVars>>

\* A plausible slip: the guard on an already marked word is left out.
AddMistakeUnguarded(type) ==
    /\ ~isPreambleScreen /\ ~showSummary
    /\ Len(mistakes) < MaxMistakes
    /\ mistakes' = Append(mistakes, [ayahIndex |-> currentAyahIndex,
                                     wordIndex |-> currentWordIndex,
                                     type |-> type])
    /\ UNCHANGED <<currentAyahIndex, currentWordIndex, totalWordsInSession,
                   furthestAyahIndex, furthestWordIndex, sessionStartIndex,
                   showSummary, sessionStats, sessionStarted>>
    /\ Remember(type, type)
    /\ UNCHANGED <<propVars, pureVars>>

\* The Forgot and Tajwid buttons, the Mistake Log held below a bound.
AddMistakeWithin(type, bound) ==
    /\ ~isPreambleScreen /\ ~showSummary
    /\ IF mistakeMarkedForWord
       THEN /\ UNCHANGED mistakes
       ELSE /\ Len(mistakes) < bound
            /\ mistakes' = Append(mistakes, [ayahIndex |-> currentAyahIndex,
                                             wordIndex |-> currentWordIndex,
                                             type |-> type])
    /\ UNCHANGED <<currentAyahIndex, currentWordIndex, totalWordsInSession,
                   furthestAyahIndex, furthestWordIndex, sessionStartIndex,
                   showSummary, sessionStats, sessionStarted>>
    /\ Remember(type, IF ~mistakeMarkedForWord THEN type
                      ELSE IF type = "forgot" THEN "forgotRefused" ELSE "tajwidRefused")
    /\ UNCHANGED <<propVars, pureVars>>

\* The Forgot and Tajwid buttons.
AddMistake(type) == AddMistakeWithin(type, MaxMistakes)

\* The "end session early" link.
EndSessionEarly ==
    /\ ~isPreambleScreen /\ ~showSummary
    /\ endMemorizationSession
    /\ UNCHANGED <<currentAyahIndex, currentWordIndex, mistakes, totalWordsInSession,
                   furthestAyahIndex, furthestWordIndex, sessionStartIndex, sessionStarted>>
    /\ Remember("end", "end")
    /\ UNCHANGED <<propVars, pureVars>>

\* A plausible slip: the Mistake Log of the run before is kept.
resetSessionKeepsLog ==
    LET initialIndex == getInitialIndex
        shouldShowStartScreen == initialIndex = 0 /\ hasPreamble
    IN /\ showSummary' = FALSE
       /\ sessionStats' = NullStats
       /\ currentAyahIndex' = initialIndex
       /\ currentWordIndex' = 0
       /\ UNCHANGED mistakes
       /\ sessionStarted' = ~shouldShowStartScreen
       /\ furthestAyahIndex' = initialIndex
       /\ furthestWordIndex' = 0
       /\ sessionStartIndex' = initialIndex
       /\ totalWordsInSession' = (IF shouldShowStartScreen THEN 0 ELSE 1)

\* resetSession: every piece of session state is set anew from the props
resetSession ==
    LET initialIndex == getInitialIndex
        shouldShowStartScreen == initialIndex = 0 /\ hasPreamble
    IN /\ showSummary' = FALSE
       /\ sessionStats' = NullStats
       /\ currentAyahIndex' = initialIndex
       /\ currentWordIndex' = 0
       /\ mistakes' = <<>>
       /\ sessionStarted' = ~shouldShowStartScreen
       /\ furthestAyahIndex' = initialIndex
       /\ furthestWordIndex' = 0
       /\ sessionStartIndex' = initialIndex
       /\ totalWordsInSession' = (IF shouldShowStartScreen THEN 0 ELSE 1)

\* The "practice again" link of the summary modal, which is on screen when
\* the summary is shown.
ResetSession ==
    /\ showSummary /\ sessionStats # NullStats
    /\ resetSession
    /\ RememberFresh("retry")
    /\ UNCHANGED <<propVars, pureVars>>

\* =========================================================== specifications
\* A run that a specification does not use stays in its idle state.
SessIdle ==
    /\ ayahs = <<>> /\ isJuzMode = FALSE /\ startAyah = 1
    /\ currentAyahIndex = 0 /\ currentWordIndex = 0 /\ mistakes = <<>>
    /\ totalWordsInSession = 0 /\ furthestAyahIndex = 0 /\ furthestWordIndex = 0
    /\ sessionStartIndex = 0 /\ showSummary = FALSE /\ sessionStats = NullStats
    /\ sessionStarted = FALSE
    /\ lastOp = "idle" /\ furthestSeen = {} /\ peak = <<0, 0>> /\ scenario = -1
    /\ forwardOnly = FALSE
TokUseIdle ==
    /\ tokMistakes = <<>> /\ tokSpans = <<>> /\ tokExportItems = <<>>
    /\ tokWordCount = 0 /\ tokRan = {}
TokIdle == tokText = <<>> /\ tokItems = <<>> /\ tokDone = FALSE /\ TokUseIdle
ScIdle ==
    /\ scStats = [totalWords |-> 0, forgotCount |-> 0, tajwidCount |-> 0]
    /\ scScore = 0
    /\ scDone = FALSE
RkIdle == rkAccuracy = 0 /\ rkRank = "none" /\ rkPrevRank = "none"
RvIdle ==
    /\ rvAyahs = <<>>
    /\ rvMistakes = <<>>
    /\ rvFont = [letter |-> 0, mark |-> 0, space |-> 0]
    /\ rvGroups = <<>>
    /\ rvOps = <<>>
    /\ rvDone = FALSE
ExHeightIdle == exPreLines = 0 /\ exReserved = 0 /\ exDrawn = 0
ExIdle ==
    /\ exText = <<>>
    /\ exMistakes = <<>>
    /\ exFont = [letter |-> 0, mark |-> 0, space |-> 0]
    /\ exLines = <<>>
    /\ exDone = FALSE
    /\ ExHeightIdle
    /\ RvIdle

\* ----------------------------------------------------- the session
Init == SessionInit /\ TokIdle /\ ScIdle /\ RkIdle /\ ExIdle

Next ==
    \/ HandleStartMemorization
    \/ HandleNextWord
    \/ HandlePreviousWord
    \/ AddMistake("forgot")
    \/ AddMistake("tajwid")
    \/ EndSessionEarly
    \/ ResetSession

Spec == Init /\ [][Next]_vars

\* ----------------------------------------------------- sparse lists
\* The session over lists that hold verses without a logical word, moved
\* through with the start, next-word and previous-word buttons and ended.
SparseInit ==
    /\ isJuzMode \in BOOLEAN
    /\ ayahs \in SparseLists(isJuzMode)
    /\ startAyah \in (IF isJuzMode THEN {1} ELSE 1..(ayahs[Len(ayahs)].number + 1))
    /\ MountedState
    /\ TokIdle /\ ScIdle /\ RkIdle /\ ExIdle

SparseNext ==
    \/ HandleStartMemorization
    \/ HandleNextWord
    \/ HandlePreviousWord
    \/ EndSessionEarly
    \/ ResetSession

SparseSpec == SparseInit /\ [][SparseNext]_vars

\* ----------------------------------------------------- longer Mistake Log
\* The session over the shorter lists of SparseSpec, with room for a Mistake
\* on every position the cursor can take there.
MarkedInit ==
    /\ SparseInit
    /\ Len(ayahs) <= MaxMarkedAyahs

MarkedNext ==
    \/ HandleStartMemorization
    \/ HandleNextWord
    \/ HandlePreviousWord
    \/ AddMistakeWithin("forgot", MaxMarkedMistakes)
    \/ AddMistakeWithin("tajwid", MaxMarkedMistakes)
    \/ EndSessionEarly
    \/ ResetSession

MarkedSpec == MarkedInit /\ [][MarkedNext]_vars

\* ----------------------------------------------------- forward only
\* The session in which, from some point of a started session on, the user
\* presses nothing but the next-word button and, on a preamble screen, the
\* start button, and keeps pressing while the session is on.
\* the user settles on pressing forward only
ForwardFromHere ==
    /\ ~forwardOnly /\ sessionStarted /\ ~showSummary
    /\ forwardOnly' = TRUE
    /\ UNCHANGED <<lastOp, furthestSeen, peak, scenario, propVars, stateVars, pureVars>>

ForwardInit == SparseInit

ForwardNext ==
    \/ HandleStartMemorization
    \/ HandleNextWord
    \/ ~forwardOnly /\ HandlePreviousWord
    \/ ~forwardOnly /\ EndSessionEarly
    \/ ~forwardOnly /\ ResetSession
    \/ ForwardFromHere

ForwardSpec ==
    /\ ForwardInit
    /\ [][ForwardNext]_vars
    /\ WF_vars(forwardOnly /\ HandleNextWord)
    /\ WF_vars(forwardOnly /\ HandleStartMemorization)

\* ----------------------------------------------------- session to export
\* A session, its summary, and from the summary the export of the Analysis
\* view: onAnalyze hands sessionStats to the Analysis view
\* (onStartAnalysis(sessionStats)), which is mounted in place of the session
\* with the verse list of the session, and handleSaveAndDownload draws the
\* review section from stats.mistakes.
AnalyzeAndExport ==
    /\ showSummary /\ sessionStats # NullStats /\ ~rvDone
    /\ rvAyahs' = ayahs
    /\ rvMistakes' = sessionStats[1].mistakes
    /\ rvFont' \in Fonts
    /\ rvGroups' = mistakesByAyah(rvAyahs', rvMistakes')
    /\ rvOps' = reviewSection(rvAyahs', rvGroups', rvFont')
    /\ rvDone' = TRUE
    /\ UNCHANGED <<exText, exMistakes, exFont, exLines, exDone, exHeightVars,
                   tokVars, scVars, rkVars, sessVars>>

\* the session is on screen until the Analysis view replaces it
FlowInit == SparseInit

FlowNext ==
    \/ ~rvDone /\ HandleStartMemorization
    \/ ~rvDone /\ HandleNextWord
    \/ ~rvDone /\ HandlePreviousWord
    \/ ~rvDone /\ AddMistake("forgot")
    \/ ~rvDone /\ AddMistake("tajwid")
    \/ ~rvDone /\ EndSessionEarly
    \/ ~rvDone /\ ResetSession
    \/ AnalyzeAndExport

FlowSpec == FlowInit /\ [][FlowNext]_vars

\* ----------------------------------------------------- tokenizer run
\* stats.mistakes: nothing, or one Mistake in verse 0 at a word index a text
\* of the bound can have
TokMistakeLists ==
    {<<>>} \cup {<<[ayahIndex |-> 0, wordIndex |-> w, type |-> t]>> :
                    w \in 0..(MaxTextLen \div 2), t \in {"forgot", "tajwid"}}

TokInit ==
    /\ tokText \in TextsUpTo(MaxTextLen)
    /\ tokItems = <<>>
    /\ tokDone = FALSE
    /\ tokMistakes \in TokMistakeLists
    /\ tokSpans = <<>>
    /\ tokExportItems = <<>>
    /\ tokWordCount = 0
    /\ tokRan = {}
    /\ SessIdle /\ ScIdle /\ RkIdle /\ ExIdle

\* the displayStructure memo of the session
Tokenize ==
    /\ ~tokDone
    /\ tokItems' = displayStructure(tokText)
    /\ tokDone' = TRUE
    /\ UNCHANGED <<tokText, tokUseVars, scVars, rkVars, exVars, sessVars>>

\* the displayableItems memo of the Analysis view, for the verse at index 0
ShowInAnalysis ==
    /\ "analysis" \notin tokRan
    /\ tokSpans' = displayableItems(tokText, tokMistakes, 0)
    /\ tokRan' = tokRan \cup {"analysis"}
    /\ UNCHANGED <<tokText, tokItems, tokDone, tokMistakes, tokExportItems, tokWordCount,
                   scVars, rkVars, exVars, sessVars>>

\* itemsToRender of the export, for the same verse
BuildExportItems ==
    /\ "export" \notin tokRan
    /\ tokExportItems' = itemsToRender(tokText, tokMistakes)
    /\ tokRan' = tokRan \cup {"export"}
    /\ UNCHANGED <<tokText, tokItems, tokDone, tokMistakes, tokSpans, tokWordCount,
                   scVars, rkVars, exVars, sessVars>>

\* prevAyahWords.length of handlePreviousWord
CountWords ==
    /\ "count" \notin tokRan
    /\ tokWordCount' = Len(getWordsForAyah(tokText))
    /\ tokRan' = tokRan \cup {"count"}
    /\ UNCHANGED <<tokText, tokItems, tokDone, tokMistakes, tokSpans, tokExportItems,
                   scVars, rkVars, exVars, sessVars>>

TokNext == Tokenize \/ ShowInAnalysis \/ BuildExportItems \/ CountWords

TokSpec == TokInit /\ [][TokNext]_vars

\* ----------------------------------------------------- score run
ScoreInit ==
    /\ scStats \in [totalWords : 0..MaxTotalWords,
                    forgotCount : 0..MaxMistakeCount,
                    tajwidCount : 0..MaxMistakeCount]
    /\ scScore = 0
    /\ scDone = FALSE
    /\ SessIdle /\ TokIdle /\ RkIdle /\ ExIdle

ComputeScore ==
    /\ ~scDone
    /\ scScore' = calculateScore(scStats)
    /\ scDone' = TRUE
    /\ UNCHANGED <<scStats, tokVars, rkVars, exVars, sessVars>>

ScoreNext == ComputeScore

ScoreSpec == ScoreInit /\ [][ScoreNext]_vars

\* ----------------------------------------------------- rank run
RankInit ==
    /\ rkAccuracy \in 0..FullAccuracy
    /\ rkRank = "none"
    /\ rkPrevRank = "none"
    /\ SessIdle /\ TokIdle /\ ScIdle /\ ExIdle

\* the rank of the accuracy at hand
ApplyRank ==
    /\ rkRank = "none"
    /\ rkRank' = getRank(rkAccuracy)
    /\ UNCHANGED <<rkAccuracy, rkPrevRank, tokVars, scVars, exVars, sessVars>>

\* the rank of the next higher accuracy, the one before kept for comparison
RaiseAccuracy ==
    /\ rkRank # "none"
    /\ rkAccuracy < FullAccuracy
    /\ rkAccuracy' = rkAccuracy + 1
    /\ rkPrevRank' = rkRank
    /\ rkRank' = getRank(rkAccuracy + 1)
    /\ UNCHANGED <<tokVars, scVars, exVars, sessVars>>

RankNext == ApplyRank \/ RaiseAccuracy

RankSpec == RankInit /\ [][RankNext]_vars

\* ----------------------------------------------------- export layout run
ExportMistakeLists ==
    {<<>>} \cup {<<[ayahIndex |-> 0, wordIndex |-> w, type |-> t]>> :
                    w \in 0..1, t \in {"forgot", "tajwid"}}

ExportInit ==
    /\ exText \in TextsUpTo(MaxTextLen)
    /\ exMistakes \in ExportMistakeLists
    /\ exFont \in Fonts
    /\ exLines = <<>>
    /\ exDone = FALSE
    /\ ExHeightIdle
    /\ RvIdle
    /\ SessIdle /\ TokIdle /\ ScIdle /\ RkIdle

\* one verse of the review section: the height pre-pass, then the layout of
\* the drawing pass
LayoutVerse ==
    /\ ~exDone
    /\ exPreLines' = prePassLines(exText, exFont)
    /\ exReserved' = prePassVerseHeight(exText, exFont)
    /\ exLines' = linesOfItems(itemsToRender(exText, exMistakes), exFont)
    /\ exDrawn' = drawnVerseHeight(linesOfItems(itemsToRender(exText, exMistakes), exFont))
    /\ exDone' = TRUE
    /\ UNCHANGED <<exText, exMistakes, exFont, rvVars, tokVars, scVars, rkVars, sessVars>>

ExportNext == LayoutVerse

ExportSpec == ExportInit /\ [][ExportNext]_vars

\* ----------------------------------------------------- review section run
ReviewLists == {list \in AyahLists(TRUE) : Len(list) <= MaxReviewAyahs}

\* stats.mistakes: at most one entry per word, as a session logs them; the
\* verse index may fall outside the list
ReviewMistakes(list) ==
    LET entries == [ayahIndex : -1..Len(list), wordIndex : 0..1,
                    type : {"forgot", "tajwid"}]
    IN {ms \in UNION {[1..k -> entries] : k \in 0..MaxReviewMistakes} :
           \A i, j \in 1..Len(ms) :
               (ms[i].ayahIndex = ms[j].ayahIndex /\ ms[i].wordIndex = ms[j].wordIndex)
                   => i = j}

ReviewInit ==
    /\ rvAyahs \in ReviewLists
    /\ rvMistakes \in ReviewMistakes(rvAyahs)
    /\ rvFont \in Fonts
    /\ rvGroups = <<>>
    /\ rvOps = <<>>
    /\ rvDone = FALSE
    /\ exText = <<>>
    /\ exMistakes = <<>>
    /\ exFont = [letter |-> 0, mark |-> 0, space |-> 0]
    /\ exLines = <<>>
    /\ exDone = FALSE
    /\ ExHeightIdle
    /\ SessIdle /\ TokIdle /\ ScIdle /\ RkIdle

\* handleSaveAndDownload: the grouping, then the review section
DrawReview ==
    /\ ~rvDone
    /\ rvGroups' = mistakesByAyah(rvAyahs, rvMistakes)
    /\ rvOps' = reviewSection(rvAyahs, mistakesByAyah(rvAyahs, rvMistakes), rvFont)
    /\ rvDone' = TRUE
    /\ UNCHANGED <<rvAyahs, rvMistakes, rvFont, exText, exMistakes, exFont, exLines,
                   exDone, exHeightVars, tokVars, scVars, rkVars, sessVars>>

ReviewNext == DrawReview

ReviewSpec == ReviewInit /\ [][ReviewNext]_vars

\* ----------------------------------------------------- called functions
\* endMemorizationSession and resetSession read the component's state: they
\* are applied to the states of a fresh session and to states drawn from the
\* values their inputs range over.
CallMistakeLogs ==
    UNION {{[i \in 1..k |-> [ayahIndex |-> 0, wordIndex |-> i - 1, type |-> kinds[i]]] :
               kinds \in [1..k -> {"forgot", "tajwid"}]} : k \in 0..MaxCallMistakes}

CallInit ==
    /\ \/ SessionInit
       \/ /\ isJuzMode \in BOOLEAN
          /\ ayahs \in AyahLists(isJuzMode)
          /\ startAyah \in (IF isJuzMode THEN {1} ELSE 1..(ayahs[Len(ayahs)].number + 1))
          /\ totalWordsInSession \in 0..MaxCallWords
          /\ sessionStarted = (totalWordsInSession > 0)
          /\ mistakes \in CallMistakeLogs
          /\ currentAyahIndex = Len(ayahs) - 1
          /\ currentWordIndex = 0
          /\ furthestAyahIndex = Len(ayahs) - 1
          /\ furthestWordIndex = 0
          /\ sessionStartIndex = getInitialIndex
          /\ showSummary = FALSE
          /\ sessionStats = NullStats
          /\ lastOp = "input"
          /\ scenario = 0
          /\ furthestSeen = {}
          /\ peak = <<0, 0>>
          /\ forwardOnly = FALSE
    /\ TokIdle /\ ScIdle /\ RkIdle /\ ExIdle

\* a call of endMemorizationSession
CallEnd ==
    /\ scenario < MaxCalls
    /\ endMemorizationSession
    /\ UNCHANGED <<currentAyahIndex, currentWordIndex, mistakes, totalWordsInSession,
                   furthestAyahIndex, furthestWordIndex, sessionStartIndex, sessionStarted>>
    /\ lastOp' = (IF totalWordsInSession = 0 THEN "endRefused" ELSE "end")
    /\ scenario' = scenario + 1
    /\ UNCHANGED <<furthestSeen, peak, forwardOnly, propVars, pureVars>>

\* a call of resetSession
CallReset ==
    /\ scenario < MaxCalls
    /\ resetSession
    /\ lastOp' = "retry"
    /\ scenario' = scenario + 1
    /\ UNCHANGED <<furthestSeen, peak, forwardOnly, propVars, pureVars>>

CallNext == CallEnd \/ CallReset

CallSpec == CallInit /\ [][CallNext]_vars

\* ----------------------------------------------------- snapshot and summary
\* endMemorizationSession applied to the word counts and Mistake Logs a
\* session can hold (a log is never longer than the count), then the summary
\* modal rendered on the snapshot: its score and its rank.
SnapshotLogs ==
    UNION {{[i \in 1..k |-> [ayahIndex |-> 0, wordIndex |-> i - 1, type |-> kinds[i]]] :
               kinds \in [1..k -> {"forgot", "tajwid"}]} : k \in 0..MaxSnapshotMistakes}

SnapshotInit ==
    /\ isJuzMode = FALSE
    /\ ayahs = <<[number |-> 1, text |-> <<"a", " ", "a", "m", " ", "a">>]>>
    /\ startAyah = 1
    /\ totalWordsInSession \in 1..MaxSnapshotWords
    /\ mistakes \in {log \in SnapshotLogs : Len(log) <= totalWordsInSession}
    /\ sessionStarted = TRUE
    /\ currentAyahIndex = 0
    /\ currentWordIndex = 0
    /\ furthestAyahIndex = 0
    /\ furthestWordIndex = 0
    /\ sessionStartIndex = 0
    /\ showSummary = FALSE
    /\ sessionStats = NullStats
    /\ lastOp = "input"
    /\ scenario = 0
    /\ furthestSeen = {}
    /\ peak = <<0, 0>>
    /\ forwardOnly = FALSE
    /\ TokIdle /\ ScIdle /\ RkIdle /\ ExIdle

\* the call of endMemorizationSession that ends the session
EndSnapshot ==
    /\ ~showSummary
    /\ endMemorizationSession
    /\ UNCHANGED <<currentAyahIndex, currentWordIndex, mistakes, totalWordsInSession,
                   furthestAyahIndex, furthestWordIndex, sessionStartIndex, sessionStarted>>
    /\ lastOp' = "end"
    /\ UNCHANGED <<scenario, furthestSeen, peak, forwardOnly, propVars, pureVars>>

\* the summary modal rendered on sessionStats: calculateScore(stats) and
\* getRank(stats.accuracy)
RenderSummary ==
    /\ showSummary /\ sessionStats # NullStats /\ ~scDone
    /\ scStats' = [totalWords |-> sessionStats[1].totalWords,
                   forgotCount |-> sessionStats[1].forgotCount,
                   tajwidCount |-> sessionStats[1].tajwidCount]
    /\ scScore' = calculateScore(sessionStats[1])
    /\ scDone' = TRUE
    /\ rkAccuracy' = sessionStats[1].accuracy
    /\ rkRank' = getRank(sessionStats[1].accuracy)
    /\ UNCHANGED <<rkPrevRank, tokVars, exVars, sessVars>>

SnapshotNext == EndSnapshot \/ RenderSummary

SnapshotSpec == SnapshotInit /\ [][SnapshotNext]_vars

\* ================================================================== claims
\* ------------------------------------------------ reading the items back
\* First index >= p of text that holds no space (Len(text) + 1 when none).
RECURSIVE SkipSpaces(_, _)
SkipSpaces(text, p) ==
    IF p <= Len(text) /\ text[p] = Space THEN SkipSpaces(text, p + 1) ELSE p

\* The rawText of the items in order, a single space put between two items
\* exactly where text has a separator between them.
RECURSIVE RejoinFrom(_, _, _, _)
RejoinFrom(items, text, p, first) ==
    IF items = <<>> THEN <<>>
    ELSE LET start == SkipSpaces(text, p)
             raw == Head(items).text
         IN (IF ~first /\ start > p THEN <<Space>> ELSE <<>>)
            \o raw
            \o RejoinFrom(Tail(items), text, start + Len(raw), FALSE)

Rejoin(items, text) == RejoinFrom(items, text, 1, TRUE)

\* The separators of text are single spaces between two fragments.
SingleSpaced(text) ==
    /\ text # <<>> => (text[1] # Space /\ text[Len(text)] # Space)
    /\ \A i \in 1..(Len(text) - 1) : ~(text[i] = Space /\ text[i + 1] = Space)

WordItems(items) == SelectSeq(items, LAMBDA it : it.type = "word")

\* C4 as stated: for every verse text the items, joined by a single space
\* where the text has a separator, give the text back.
C4_RoundTripAnyText ==
    tokDone => Rejoin(tokItems, tokText) = tokText

\* C4 amended: the round trip holds for every verse text whose separators are
\* single spaces between fragments (no leading, trailing or repeated space).
C4_RoundTripSingleSpaced ==
    (tokDone /\ SingleSpaced(tokText)) => Rejoin(tokItems, tokText) = tokText

C4_Witness ==
    /\ tokDone
    /\ SingleSpaced(tokText)
    /\ Len(tokItems) >= 3
    /\ \E i \in 1..Len(tokItems) : tokItems[i].type = "waqf"
    /\ \E i \in 1..Len(tokText) : tokText[i] = Space

\* C5: the logic indices of the Word items are 0, 1, ..., wordCount-1 in
\* source order, and a PauseMark item carries the index of the word before it
\* (-1 when there is none) without using one up.
C5_LogicIndexDense ==
    tokDone =>
        LET words == WordItems(tokItems) IN
        /\ Len(words) = Len(logicWords(tokText))
        /\ \A i \in 1..Len(words) : words[i].logicIndex = i - 1
        /\ \A i \in 1..Len(tokItems) :
              tokItems[i].type = "waqf" =>
                 tokItems[i].logicIndex = Len(WordItems(SubSeq(tokItems, 1, i))) - 1

C5_Witness ==
    /\ tokDone
    /\ Len(WordItems(tokItems)) >= 2
    /\ \E i \in 2..(Len(tokItems) - 1) :
          /\ tokItems[i].type = "waqf"
          /\ tokItems[i - 1].type = "word"
          /\ tokItems[i + 1].type = "word"

\* C6: the score of a run without mistakes is N for every N > 0, and the score
\* of a run of zero words is 0 whatever the mistake counts are.
C6_ScoreBoundary ==
    scDone =>
        /\ (scStats.totalWords > 0 /\ scStats.forgotCount = 0 /\ scStats.tajwidCount = 0)
              => scScore = scStats.totalWords
        /\ scStats.totalWords = 0 => scScore = 0

C6_Witness ==
    /\ scDone
    /\ scStats.totalWords = MaxTotalWords
    /\ scStats.forgotCount = 0
    /\ scStats.tajwidCount = 0
    /\ scScore = MaxTotalWords

\* The bands of the rank table, each with both of its ends.
RankBand(accuracy) ==
    CASE accuracy = 10000 -> "X"
      [] accuracy >= 9950 /\ accuracy < 10000 -> "SSS"
      [] accuracy >= 9900 /\ accuracy < 9950 -> "SS"
      [] accuracy >= 9800 /\ accuracy < 9900 -> "S"
      [] accuracy >= 9500 /\ accuracy < 9800 -> "A"
      [] accuracy >= 9000 /\ accuracy < 9500 -> "B"
      [] accuracy >= 8250 /\ accuracy < 9000 -> "C"
      [] accuracy >= 7500 /\ accuracy < 8250 -> "D"
      [] accuracy < 7500 -> "F"

\* C7: every accuracy of [0, 100] gets the one rank of its band (lower bounds
\* inclusive, exactly 100 alone gives X), and the rank of an accuracy is never
\* worse than the rank of the accuracy one hundredth below it.
C7_RankSteps ==
    /\ rkRank # "none" =>
          /\ rkRank = RankBand(rkAccuracy)
          /\ Cardinality({i \in 1..Len(Ranks) : Ranks[i] = rkRank}) = 1
    /\ rkPrevRank # "none" => RankOrder(rkPrevRank) <= RankOrder(rkRank)

C7_Witness ==
    /\ rkAccuracy = 8250
    /\ rkRank = "C"
    /\ rkPrevRank = "D"

RECURSIVE SumWidths(_, _)
SumWidths(line, font) ==
    IF line = <<>> THEN 0
    ELSE measureText(Head(line).text, font) + SumWidths(Tail(line), font)

\* The widths of the items of a line plus one space between neighbours.
LineWidth(line, font) ==
    IF line = <<>> THEN 0
    ELSE SumWidths(line, font) + (Len(line) - 1) * measureText(<<Space>>, font)

\* C9: a line of the export is no wider than the content width (the widths of
\* its items plus one space between neighbours), unless it is a single item
\* that is itself wider than the content width.
C9_LineWrap ==
    exDone =>
        \A i \in 1..Len(exLines) :
            \/ LineWidth(exLines[i], exFont) <= contentWidth
            \/ /\ Len(exLines[i]) = 1
               /\ measureText(exLines[i][1].text, exFont) > contentWidth

C9_Witness ==
    /\ exDone
    /\ Len(exLines) >= 2
    /\ \E i \in 1..Len(exLines) :
          /\ Len(exLines[i]) >= 2
          /\ LineWidth(exLines[i], exFont) <= contentWidth
          /\ LineWidth(exLines[i], exFont) > contentWidth - exFont.letter

\* ------------------------------------------------------------ session claims
\* the furthest points of the session that lie on a real verse (a preamble
\* has no counted word)
CountedFurthestPairs == {pos \in furthestSeen : ayahs[pos[1] + 1].number # 0}

\* C1: in a started session the total word count equals the number of distinct
\* (verseIndex, wordIndex) pairs that were ever the furthest point reached
\* (the pairs on a preamble left aside, the reading kindest to the code), and
\* is never the number of forward presses.
C1_TotalIsDistinctFurthest ==
    sessionStarted => totalWordsInSession = Cardinality(CountedFurthestPairs)

UniqueMistakes ==
    \A i, j \in 1..Len(mistakes) :
        (/\ mistakes[i].ayahIndex = mistakes[j].ayahIndex
         /\ mistakes[i].wordIndex = mistakes[j].wordIndex) => i = j

MarkPressed == lastOp' \in {"forgot", "tajwid", "forgotRefused", "tajwidRefused"}

\* C2: the Mistake Log holds at most one Mistake per (verseIndex, wordIndex)
\* pair in every reachable state, and a press of Forgot or Tajwid on a word
\* that already has a Mistake, of the same or of the other kind, leaves the
\* log as it was.
C2_MistakeIdempotent ==
    /\ []UniqueMistakes
    /\ [][(MarkPressed /\ mistakeMarkedForWord) => mistakes' = mistakes]_vars

\* C2 happens: Tajwid was pressed on a word marked Forgot, and Forgot is kept.
C2_Witness ==
    /\ lastOp = "tajwidRefused"
    /\ \E i \in 1..Len(mistakes) :
           /\ mistakes[i].ayahIndex = currentAyahIndex
           /\ mistakes[i].wordIndex = currentWordIndex
           /\ mistakes[i].type = "forgot"

\* C3: between a start and the next reset the furthest position never moves
\* backward and is at least every position the cursor has had: it equals the
\* largest position the cursor or the furthest mark has had since the start.
C3_FurthestIsHighWater ==
    sessionStarted => <<furthestAyahIndex, furthestWordIndex>> = peak

OneVerseOfThreeWords ==
    /\ Len(ayahs) = 1
    /\ ayahs[1].number # 0
    /\ Len(logicWords(ayahs[1].text)) = 3

\* C8: on one verse of three logic words with no preamble, the start followed
\* by advance, advance, mark Forgot, advance ends the session with the stats
\* totalWords 3, forgotCount 1, tajwidCount 0, accuracy 66.67, and a score of 0.
C8_EndToEnd ==
    (OneVerseOfThreeWords /\ scenario = Len(ScenarioOps)) =>
        /\ showSummary
        /\ sessionStats # NullStats
        /\ sessionStats[1].totalWords = 3
        /\ sessionStats[1].forgotCount = 1
        /\ sessionStats[1].tajwidCount = 0
        /\ sessionStats[1].accuracy = 6667
        /\ calculateScore(sessionStats[1]) = 0

\* C8 happens: the scenario was played to its end on such a list.
C8_Witness ==
    /\ OneVerseOfThreeWords
    /\ scenario = Len(ScenarioOps)
    /\ lastOp = "nextEnd"
    /\ showSummary

\* the session has just been started: on mount or retry without a start
\* screen, or through the start button of the start screen
JustStarted == lastOp \in {"create", "start", "retry"} /\ sessionStarted

\* the 0-based index of the first verse that is not a preamble
FirstNonPreamble ==
    CHOOSE i \in 0..(Len(ayahs) - 1) :
        /\ ayahs[i + 1].number # 0
        /\ \A j \in 0..(i - 1) : ayahs[j + 1].number = 0

RequestedFound == \E i \in 1..Len(ayahs) : ayahs[i].number = startAyah

\* C10 as stated: the entry verse is index 0 in Juz mode; in single-chapter
\* mode it is the verse whose number is the requested one, index 0 when there
\* is none.
C10_EntryIsIndexZero ==
    JustStarted =>
        IF ~isJuzMode /\ RequestedFound
        THEN ayahs[currentAyahIndex + 1].number = startAyah
        ELSE currentAyahIndex = 0

\* C10, amended: the entry verse is the first verse that is not a preamble in
\* Juz mode; in single-chapter mode it is the verse whose number is the
\* requested one, the first verse that is not a preamble when there is none.
C10_EntryIsFirstRealVerse ==
    JustStarted =>
        /\ currentWordIndex = 0
        /\ sessionStartIndex = currentAyahIndex
        /\ IF ~isJuzMode /\ RequestedFound
           THEN ayahs[currentAyahIndex + 1].number = startAyah
           ELSE currentAyahIndex = FirstNonPreamble

\* C10 happens: the start button was pressed on a list that begins with a
\* preamble where no verse was requested or the requested one is missing.
C10_Witness ==
    /\ lastOp = "start"
    /\ sessionStarted
    /\ ayahs[1].number = 0
    /\ isJuzMode \/ ~RequestedFound
    /\ currentAyahIndex = 1


\* the session has just become active: on mount without a start screen, or
\* through the start button of the start screen
BecameActive == lastOp \in {"create", "start"} /\ sessionStarted

\* C11: right after the start (from the start screen, or at creation when the
\* first verse is no preamble) the Mistake Log is empty, the current, the
\* furthest and the session start verse index are one and the same real
\* verse, both word indices are 0 and the word count is 1.
C11_StartState ==
    BecameActive =>
        /\ mistakes = <<>>
        /\ currentAyahIndex = furthestAyahIndex
        /\ currentAyahIndex = sessionStartIndex
        /\ currentAyahIndex \in 0..(Len(ayahs) - 1)
        /\ currentAyah.number # 0
        /\ currentWordIndex = 0
        /\ furthestWordIndex = 0
        /\ totalWordsInSession = 1
        /\ ~showSummary

\* C11 happens: the start button was pressed on the start screen of a chapter
\* and the requested verse, not the first one, is the entry.
C11_Witness ==
    /\ lastOp = "start"
    /\ sessionStarted
    /\ ~isJuzMode
    /\ RequestedFound
    /\ startAyah > 1
    /\ totalWordsInSession = 1

PrevPressed == lastOp' \in {"prev", "prevRefused"}

AtSessionStart == currentAyahIndex = sessionStartIndex /\ currentWordIndex = 0

C13_RetreatFrame ==
    [][PrevPressed => UNCHANGED <<furthestAyahIndex, furthestWordIndex,
                                  totalWordsInSession, mistakes, sessionStartIndex,
                                  showSummary, sessionStats, sessionStarted>>]_vars

\* C13 happens: two words were counted and marked, and the cursor went back
\* behind the furthest position.
C13_Witness ==
    /\ lastOp = "prev"
    /\ totalWordsInSession >= 2
    /\ mistakes # <<>>
    /\ <<currentAyahIndex, currentWordIndex>> # <<furthestAyahIndex, furthestWordIndex>>

NextPressed == lastOp' \in {"next", "nextEnd"}

AtLastWordOfAyah == currentWordIndex >= currentAyahWordCount - 1

\* C14: an advance at the last word of the last verse ends the session (the
\* stats snapshot is stored, the summary is shown) and leaves the cursor where
\* it is; at the last word of any other verse it puts the cursor on word 0 of
\* the next verse.
C14_AdvanceAtVerseEnd ==
    [][(NextPressed /\ AtLastWordOfAyah) =>
          IF currentAyahIndex = Len(ayahs) - 1
          THEN /\ showSummary'
               /\ sessionStats' # NullStats
               /\ currentAyahIndex' = currentAyahIndex
               /\ currentWordIndex' = currentWordIndex
          ELSE /\ currentAyahIndex' = currentAyahIndex + 1
               /\ currentWordIndex' = 0
               /\ ~showSummary']_vars

\* C14 happens: the session was ended by an advance at the last word of the
\* last verse of a list of several verses.
C14_Witness ==
    /\ lastOp = "nextEnd"
    /\ showSummary
    /\ sessionStats # NullStats
    /\ Len(ayahs) > 1
    /\ currentAyahIndex = Len(ayahs) - 1
    /\ currentWordIndex = currentAyahWordCount - 1


\* --------------------------------------------------- called-function claims
EndCalled == lastOp' \in {"end", "endRefused"}

CountOfKind(log, kind) == Cardinality({i \in 1..Len(log) : log[i].type = kind})

\* C15: endMemorizationSession emits a stats snapshot exactly when the word
\* count is above 0; the snapshot holds the word count, the numbers of Forgot
\* and of Tajwid entries of the Mistake Log (together its length) and the
\* whole log; with a word count of 0 nothing is emitted and the session state
\* stays as it is.
C15_EndEmitsIffCounted ==
    [][EndCalled =>
          IF totalWordsInSession > 0
          THEN /\ showSummary'
               /\ sessionStats' # NullStats
               /\ Len(sessionStats') = 1
               /\ sessionStats'[1].totalWords = totalWordsInSession
               /\ sessionStats'[1].forgotCount = CountOfKind(mistakes, "forgot")
               /\ sessionStats'[1].tajwidCount = CountOfKind(mistakes, "tajwid")
               /\ sessionStats'[1].forgotCount + sessionStats'[1].tajwidCount
                      = Len(mistakes)
               /\ sessionStats'[1].mistakes = mistakes
               /\ mistakes' = mistakes
               /\ totalWordsInSession' = totalWordsInSession
          ELSE /\ UNCHANGED stateVars
               /\ sessionStats' = sessionStats]_vars

\* C15 happens: a snapshot with entries of both kinds was emitted.
C15_Witness ==
    /\ lastOp = "end"
    /\ showSummary
    /\ sessionStats # NullStats
    /\ CountOfKind(mistakes, "forgot") >= 1
    /\ CountOfKind(mistakes, "tajwid") >= 2

\* the values a freshly created session has for the props at hand
FreshSessionState ==
    LET entry == IF isJuzMode \/ ayahs[1].number = 0 THEN 0
                 ELSE IF RequestedFound
                 THEN CHOOSE i \in 0..(Len(ayahs) - 1) : ayahs[i + 1].number = startAyah
                 ELSE 0
        startScreen == ayahs[1].number = 0
    IN /\ currentAyahIndex = entry
       /\ currentWordIndex = 0
       /\ furthestAyahIndex = entry
       /\ furthestWordIndex = 0
       /\ sessionStartIndex = entry
       /\ totalWordsInSession = (IF startScreen THEN 0 ELSE 1)
       /\ sessionStarted = ~startScreen
       /\ mistakes = <<>>
       /\ showSummary = FALSE
       /\ sessionStats = NullStats

\* C16: resetSession, called in any state, gives the state of a freshly
\* created session for the same verse list, mode and start verse, whatever
\* the state before was and however often it is called.
C16_ResetIsFresh ==
    lastOp \in {"create", "retry"} => FreshSessionState

\* C16 happens: resetSession was called as the second call in a row, after
\* an end or after a reset.
C16_Witness ==
    /\ lastOp = "retry"
    /\ scenario = 2
    /\ FreshSessionState

\* C17: the accuracy of the snapshot is max(0, ((N - (L + 0.5 * S)) / N) * 100)
\* rounded to two decimals (the nearest hundredth, a half going up), and lies
\* in [0, 100].  In hundredths a, with E = 10000 * (2N - 2L - S) standing for
\* 2N times the exact value: -N < 2N * a - E <= N.
C17_AccuracyFormula ==
    (lastOp = "end" /\ sessionStats # NullStats) =>
        LET N == sessionStats[1].totalWords
            L == sessionStats[1].forgotCount
            S == sessionStats[1].tajwidCount
            a == sessionStats[1].accuracy
            E == 10000 * (2 * N - 2 * L - S)
        IN /\ N > 0
           /\ a \in 0..10000
           /\ IF E <= 0 THEN a = 0
              ELSE /\ 2 * N * a - E <= N
                   /\ 2 * N * a - E > -N

\* C17 happens: a snapshot whose accuracy had to be rounded.
C17_Witness ==
    /\ lastOp = "end"
    /\ sessionStats # NullStats
    /\ sessionStats[1].tajwidCount >= 1
    /\ sessionStats[1].accuracy > 0
    /\ 2 * sessionStats[1].totalWords * sessionStats[1].accuracy
          # 10000 * (2 * sessionStats[1].totalWords - 2 * sessionStats[1].forgotCount
                       - sessionStats[1].tajwidCount)


\* ------------------------------------------------------------- score claims
\* An enclosure of exp(-num/den) in millionths that does not rest on the
\* fixed-point rounding of the model.  With num/den = q + r, 0 <= r < 1:
\* the alternating series of exp(-r), each term rounded down, is cut after
\* term 12; a term is off by less than 2, the rest of the series is below 1,
\* so the sum is off by at most 25.  exp(-1) lies between 0.367879 and
\* 0.367880; a product rounded down is a lower bound, one more an upper bound.
FloorMul(a, b) == (a * (b \div 1000) + (a * (b % 1000)) \div 1000) \div 1000

RECURSIVE SeriesSum(_, _, _, _, _)
SeriesSum(r, den, k, term, sum) ==
    IF k > 12 THEN sum
    ELSE LET next == (term * r) \div (den * k) IN
         SeriesSum(r, den, k + 1, next, IF k % 2 = 1 THEN sum - next ELSE sum + next)

RECURSIVE LowerTimesExp(_, _)
LowerTimesExp(v, q) ==
    IF q = 0 \/ v <= 0 THEN (IF v < 0 THEN 0 ELSE v)
    ELSE LowerTimesExp(FloorMul(v, 367879), q - 1)

RECURSIVE UpperTimesExp(_, _)
UpperTimesExp(v, q) ==
    IF q = 0 \/ v <= 1 THEN v
    ELSE UpperTimesExp(FloorMul(v, 367880) + 1, q - 1)

ExpLower(num, den) ==
    LowerTimesExp(SeriesSum(num % den, den, 1, 1000000, 1000000) - 25, num \div den)

ExpUpper(num, den) ==
    UpperTimesExp(SeriesSum(num % den, den, 1, 1000000, 1000000) + 25, num \div den)

\* round(x / 1000000), a half going up
RoundMillionths(x) == (2 * x + 1000000) \div 2000000

\* ten times the weighted mistake count W = L * 1.0 + S * 0.6
TenW(stats) == 10 * stats.forgotCount + 6 * stats.tajwidCount

\* C18: for N > 0 and W > 0 the score is round(N * exp(-50 * W / N)): it lies
\* between the roundings of N times the two ends of the enclosure of
\* exp(-50 * W / N), which are one and the same number; it lies in 0..N; and
\* the analysis view computes the same score as the summary modal.
C18_ScoreFormula ==
    (scDone /\ scStats.totalWords > 0 /\ TenW(scStats) > 0) =>
        LET N == scStats.totalWords
            lo == RoundMillionths(N * ExpLower(50 * TenW(scStats), 10 * N))
            hi == RoundMillionths(N * ExpUpper(50 * TenW(scStats), 10 * N))
        IN /\ lo <= scScore
           /\ scScore <= hi
           /\ lo = hi
           /\ scScore \in 0..N
           /\ analysisCalculateScore(scStats) = scScore

\* C18 happens: a score strictly between 0 and N was computed from mistakes
\* of both kinds.
C18_Witness ==
    /\ scDone
    /\ scStats.forgotCount >= 1
    /\ scStats.tajwidCount >= 1
    /\ scScore > 0
    /\ scScore < scStats.totalWords


\* ---------------------------------------------------- review section claims
\* the verses that keep a mistake: inside the list, no preamble
KeptIndices ==
    {i \in 0..(Len(rvAyahs) - 1) :
        /\ rvAyahs[i + 1].number # 0
        /\ \E k \in 1..Len(rvMistakes) : rvMistakes[k].ayahIndex = i}

MistakesOfAyah(i) == SelectSeq(rvMistakes, LAMBDA m : m.ayahIndex = i)

\* C19: the grouping drops a Mistake whose verse index is outside the list or
\* on a preamble, keeps every other Mistake under its own verse in log order,
\* and the review section (its title, one heading per kept verse) is drawn
\* exactly when a Mistake is kept.
C19_GroupingDropsInvalid ==
    rvDone =>
        /\ DOMAIN rvGroups = KeptIndices
        /\ \A i \in KeptIndices : rvGroups[i] = MistakesOfAyah(i)
        /\ (rvOps # <<>>) <=> (KeptIndices # {})
        /\ (\E k \in 1..Len(rvOps) : rvOps[k].op = "title") <=> (KeptIndices # {})
        /\ \A i \in KeptIndices :
              Cardinality({k \in 1..Len(rvOps) :
                              rvOps[k].op = "heading" /\ rvOps[k].ayahIndex = i}) = 1
        /\ \A k \in 1..Len(rvOps) :
              rvOps[k].op # "title" => rvOps[k].ayahIndex \in KeptIndices

\* C19 happens: of two Mistakes one is on a preamble or outside the list and
\* is dropped, the other is kept and the section is drawn.
C19_Witness ==
    /\ rvDone
    /\ Len(rvMistakes) = 2
    /\ KeptIndices # {}
    /\ \E k \in 1..Len(rvMistakes) : rvMistakes[k].ayahIndex \notin KeptIndices
    /\ rvOps # <<>>

\* the rectangle and text calls made for verse i, without their positions
RectAndTextOps(i) ==
    LET ops == SelectSeq(rvOps, LAMBDA o : o.ayahIndex = i /\ o.op \in {"fillRect", "fillText"})
    IN [k \in 1..Len(ops) |-> [op |-> ops[k].op, text |-> ops[k].text,
                                width |-> ops[k].width, colour |-> ops[k].colour]]

\* what the display items of verse i call for: a rectangle before the text
\* of a Word whose logic index has a Mistake in verse i, the text of every item
RECURSIVE CalledFor(_, _)
CalledFor(items, i) ==
    IF items = <<>> THEN <<>>
    ELSE LET item == Head(items)
             marked == {k \in 1..Len(rvMistakes) :
                           /\ rvMistakes[k].ayahIndex = i
                           /\ rvMistakes[k].wordIndex = item.logicIndex}
             width == measureText(item.text, rvFont)
         IN (IF item.type = "word" /\ marked # {}
             THEN <<[op |-> "fillRect", text |-> item.text, width |-> width,
                     colour |-> IF rvMistakes[CHOOSE k \in marked : TRUE].type = "forgot"
                                THEN forgotColour ELSE tajwidColour]>>
             ELSE <<>>)
            \o <<[op |-> "fillText", text |-> item.text, width |-> width,
                  colour |-> textColour]>>
            \o CalledFor(Tail(items), i)

\* C20: for every verse of the review section a highlight rectangle is made
\* for an item exactly when the item is a Word whose logic index has a
\* Mistake in that verse; it has the word's measured width, comes right
\* before the word's text and ends where the text ends, and has the Forgot
\* colour for a Forgot mistake, the Tajwid colour otherwise; a pause mark
\* gets no rectangle.
C20_HighlightIffMistake ==
    rvDone =>
        /\ \A i \in DOMAIN rvGroups :
              RectAndTextOps(i) = CalledFor(displayStructure(rvAyahs[i + 1].text), i)
        /\ \A k \in 1..Len(rvOps) :
              rvOps[k].op = "fillRect" =>
                 /\ k < Len(rvOps)
                 /\ rvOps[k + 1].op = "fillText"
                 /\ rvOps[k + 1].text = rvOps[k].text
                 /\ rvOps[k + 1].ayahIndex = rvOps[k].ayahIndex
                 /\ rvOps[k].x + rvOps[k].width = rvOps[k + 1].x
                 /\ rvOps[k].width = measureText(rvOps[k].text, rvFont)

\* C20 happens: a verse with a pause mark was drawn with a Forgot and a
\* Tajwid rectangle, and one of its words without a rectangle.
C20_Witness ==
    /\ rvDone
    /\ \E k \in 1..Len(rvOps) : rvOps[k].op = "fillRect" /\ rvOps[k].colour = forgotColour
    /\ \E k \in 1..Len(rvOps) : rvOps[k].op = "fillRect" /\ rvOps[k].colour = tajwidColour
    /\ \E k \in 1..Len(rvOps) : rvOps[k].op = "fillText" /\ rvOps[k].text = <<Mark>>
    /\ Cardinality({k \in 1..Len(rvOps) : rvOps[k].op = "fillText"})
          > Cardinality({k \in 1..Len(rvOps) : rvOps[k].op = "fillRect"}) + 1

\* ------------------------------------------------------------------- C21
\* the Mistake the session attributes to the item at place k of the verse: the
\* one logged at the logic index of the word shown there
AttributedAt(k) ==
    IF tokItems[k].type = "word"
          /\ \E i \in 1..Len(tokMistakes) : tokMistakes[i].wordIndex = tokItems[k].logicIndex
    THEN tokMistakes[CHOOSE i \in 1..Len(tokMistakes) :
                         tokMistakes[i].wordIndex = tokItems[k].logicIndex].type
    ELSE NoMistake

AllConsumersRan == tokDone /\ tokRan = {"analysis", "export", "count"}

\* C21: for every verse text the session, the Analysis view and the export
\* split the text into the same fragments and give a word fragment the same
\* logic index, so a Mistake logged at a word index is shown on the same
\* fragment by all three; the word count handlePreviousWord takes is the
\* number of word items, which is the number of logic words of the session.
C21_SameAttribution ==
    tokDone =>
        /\ ("analysis" \in tokRan) =>
              /\ Len(tokSpans) = Len(tokItems)
              /\ \A k \in 1..Len(tokItems) :
                    /\ tokSpans[k].text = tokItems[k].text
                    /\ tokSpans[k].type = tokItems[k].type
                    /\ (tokItems[k].type = "word") =>
                           tokSpans[k].logicIndex = tokItems[k].logicIndex
                    /\ tokSpans[k].mistake = AttributedAt(k)
        /\ ("export" \in tokRan) =>
              /\ Len(tokExportItems) = Len(tokItems)
              /\ \A k \in 1..Len(tokItems) :
                    /\ tokExportItems[k].text = tokItems[k].text
                    /\ tokExportItems[k].mistake = AttributedAt(k)
        /\ ("count" \in tokRan) =>
              /\ tokWordCount = Len(WordItems(tokItems))
              /\ tokWordCount = Len(logicWords(tokText))

\* a verse with a pause mark before its second word, a Mistake on that word,
\* shown on it by the Analysis view and by the export
C21_Witness ==
    /\ AllConsumersRan
    /\ tokWordCount >= 2
    /\ \E k \in 1..Len(tokItems) : \E j \in 1..(k - 1) :
          /\ tokItems[j].type = "waqf"
          /\ tokItems[k].type = "word" /\ tokItems[k].logicIndex = 1
          /\ tokSpans[k].mistake = "tajwid"
          /\ tokExportItems[k].mistake = "tajwid"

\* ------------------------------------------------------------------- C22
\* the kind the pressed mark button stands for
PressedKind == IF lastOp' \in {"forgot", "forgotRefused"} THEN "forgot" ELSE "tajwid"

\* C22: a press of a mark button changes neither the current position, the
\* furthest position, the session start index nor the word count; on a word
\* that has no Mistake yet the log grows by exactly one entry, the pressed
\* kind at the current position, put after the entries it had, which stay as
\* they were and in their order; on a marked word the log stays as it is.
C22_MarkFrame ==
    [][MarkPressed =>
          /\ UNCHANGED <<currentAyahIndex, currentWordIndex, furthestAyahIndex,
                         furthestWordIndex, sessionStartIndex, totalWordsInSession>>
          /\ IF \E i \in 1..Len(mistakes) :
                   /\ mistakes[i].ayahIndex = currentAyahIndex
                   /\ mistakes[i].wordIndex = currentWordIndex
             THEN mistakes' = mistakes
             ELSE /\ Len(mistakes') = Len(mistakes) + 1
                  /\ SubSeq(mistakes', 1, Len(mistakes)) = mistakes
                  /\ mistakes'[Len(mistakes')] = [ayahIndex |-> currentAyahIndex,
                                                  wordIndex |-> currentWordIndex,
                                                  type |-> PressedKind]]_vars

\* a second Mistake of the other kind has just been logged behind the first,
\* on a word behind the furthest position
C22_Witness ==
    /\ lastOp = "tajwid"
    /\ Len(mistakes) = 2
    /\ mistakes[1].type = "forgot"
    /\ mistakes[2] = [ayahIndex |-> currentAyahIndex, wordIndex |-> currentWordIndex,
                      type |-> "tajwid"]
    /\ <<currentAyahIndex, currentWordIndex>> # <<furthestAyahIndex, furthestWordIndex>>

\* ------------------------------------------------------------------- C23
\* a forward step that moved the cursor: the next-word button, or the start
\* button on the preamble of a later chapter
AdvanceStep == lastOp' \in {"next", "startNext"}

AtFurthest ==
    currentAyahIndex = furthestAyahIndex /\ currentWordIndex = furthestWordIndex

StrictlyBehindFurthest ==
    /\ PosLeq(<<currentAyahIndex, currentWordIndex>>,
              <<furthestAyahIndex, furthestWordIndex>>)
    /\ ~AtFurthest

\* C23: a forward step adds exactly one to the word count and moves the
\* furthest position onto the new current position if and only if the cursor
\* was at the furthest position and the verse it moves to is not a preamble;
\* a forward step from behind the furthest position changes neither the word
\* count nor the furthest position.
C23_AdvanceCountsNewOnly ==
    [][AdvanceStep =>
          /\ (/\ totalWordsInSession' = totalWordsInSession + 1
              /\ furthestAyahIndex' = currentAyahIndex'
              /\ furthestWordIndex' = currentWordIndex')
             <=> (AtFurthest /\ ayahs[currentAyahIndex' + 1].number # 0)
          /\ StrictlyBehindFurthest =>
                UNCHANGED <<totalWordsInSession, furthestAyahIndex, furthestWordIndex>>]_vars

\* ------------------------------------------------------------------- C24
\* C24: for a verse with a Mistake on one of its words the height pre-pass
\* counts as many lines as the drawing pass lays out, so the drawing pass uses no more
\* height for the verse than the pre-pass reserved for it.
C24_PrePassMatchesDrawing ==
    (/\ exDone
     /\ exMistakes # <<>>
     /\ exMistakes[1].wordIndex < Len(prePassWords(exText))) =>
        /\ exPreLines = Len(exLines)
        /\ exDrawn <= exReserved

\* ------------------------------------------------------------------- C25
\* C25: in a started session the current position is never beyond the
\* furthest position, verse index first, word index second.
C25_CursorNotBeyondFurthest ==
    sessionStarted =>
        \/ currentAyahIndex < furthestAyahIndex
        \/ /\ currentAyahIndex = furthestAyahIndex
           /\ currentWordIndex <= furthestWordIndex

\* the cursor has stepped back into the verse before the furthest one
C25_Witness ==
    /\ sessionStarted
    /\ lastOp = "prev"
    /\ currentAyahIndex < furthestAyahIndex
    /\ currentWordIndex > 0

\* ------------------------------------------------------------------- C26
\* C26: over every verse list, those with a verse without a logical word
\* included, the current verse index is an index of the list and the current
\* word index is at least 0 and less than the number of logic words of the
\* current verse, or 0 where the verse has none.
C26_CursorInRange ==
    /\ currentAyahIndex \in 0..(Len(ayahs) - 1)
    /\ currentWordIndex >= 0
    /\ currentWordIndex < (IF currentAyahWordCount > 1 THEN currentAyahWordCount ELSE 1)

\* ---------------------------------------------------- session to export claims
\* the highlight rectangles the export has drawn
HighlightRects == SelectSeq(rvOps, LAMBDA o : o.op = "fillRect")

\* the Mistakes the grouping of the export has kept
RECURSIVE KeptCount(_)
KeptCount(keys) ==
    IF keys = {} THEN 0
    ELSE LET k == CHOOSE x \in keys : TRUE IN Len(rvGroups[k]) + KeptCount(keys \ {k})

\* a Mistake that names a real verse of the list and a word of that verse
RefersToWord(m, list) ==
    /\ m.ayahIndex \in 0..(Len(list) - 1)
    /\ list[m.ayahIndex + 1].number # 0
    /\ m.wordIndex \in 0..(Len(logicWords(list[m.ayahIndex + 1].text)) - 1)

\* C27: when the export is made from the stats of an ended session, every
\* logged Mistake names a verse of the list that is no preamble and a word
\* logic index of that verse, the grouping keeps every Mistake, and the export
\* draws as many highlight rectangles as forgotCount + tajwidCount.
C27_EveryMistakeHighlighted ==
    rvDone =>
        /\ \A i \in 1..Len(rvMistakes) : RefersToWord(rvMistakes[i], rvAyahs)
        /\ KeptCount(DOMAIN rvGroups) = Len(rvMistakes)
        /\ Len(HighlightRects) = sessionStats[1].forgotCount + sessionStats[1].tajwidCount

\* ------------------------------------------------------ forward only claims
\* the session has ended: the summary is shown
Ended == showSummary

\* the counter of the model has reached its bound; the handlers of the model
\* count no further
CounterAtBound == totalWordsInSession >= MaxSessionWords

\* a press of the next-word or of the start button in a started session that
\* does not end the session
ForwardStepOn ==
    /\ sessionStarted
    /\ lastOp' \in {"next", "startNext"}
    /\ <<currentAyahIndex, currentWordIndex, lastOp, scenario, furthestSeen, peak,
         totalWordsInSession, furthestAyahIndex, furthestWordIndex>>
          # <<currentAyahIndex', currentWordIndex', lastOp', scenario', furthestSeen',
              peak', totalWordsInSession', furthestAyahIndex', furthestWordIndex'>>

\* the position moves up in the order verse first, word second
PositionMovesUp ==
    /\ PosLeq(<<currentAyahIndex, currentWordIndex>>, <<currentAyahIndex', currentWordIndex'>>)
    /\ <<currentAyahIndex, currentWordIndex>> # <<currentAyahIndex', currentWordIndex'>>

\* C28: once only forward steps are taken in a started session, the session
\* eventually ends (or the counter of the model reaches its bound), and every
\* forward step of a started session that does not end it moves the current
\* position strictly up.
C28_ForwardReachesEnd ==
    /\ [][ForwardStepOn => PositionMovesUp]_vars
    /\ (forwardOnly /\ sessionStarted) ~> (Ended \/ CounterAtBound)

\* C28 happens: a session that was moved back and then only forward has ended
\* on the last word of a list of more than one verse.
C28_Witness ==
    /\ forwardOnly
    /\ Ended
    /\ lastOp = "nextEnd"
    /\ Len(ayahs) > 1
    /\ totalWordsInSession < MaxSessionWords

\* ------------------------------------------------- snapshot and summary claims
\* twice the weight of the log in the accuracy: 2 * forgotCount + tajwidCount
TwiceMistakes(stats) == 2 * stats.forgotCount + stats.tajwidCount

C30_LogWithinCount ==
    /\ sessionStarted => Len(mistakes) <= totalWordsInSession
    /\ sessionStats # NullStats =>
           2 * sessionStats[1].forgotCount + sessionStats[1].tajwidCount
               <= 2 * sessionStats[1].totalWords

====
